---- MODULE Spec2Model ----
(***************************************************************************)
(* One client session of the Nova Sonic backend: BedrockStreamManager      *)
(* (response loop, tool dispatch, background tool tasks, result cache,     *)
(* screenshot rendezvous) and the websocket handler with its forwarder.    *)
(* asyncio is single threaded: every action below is the code that runs    *)
(* between two suspension points of one coroutine.                         *)
(***************************************************************************)
EXTENDS Integers, Sequences, FiniteSets, TLC

(***************************************************************************)
(* Bounds of the model.                                                    *)
(***************************************************************************)
\* upstream events received, and direct launch calls, in one session
MaxEvents == 4
\* background units created in one session
MaxUnits == 2
MaxClientMsgs == 3

(***************************************************************************)
(* Inputs.                                                                 *)
(***************************************************************************)
\* toolUseId values of upstream toolUse events
ToolUseIds == {"t1", "t2"}
\* the content string of a toolUse event
ContentQuery == "{\"query\": \"X\"}"
ContentNoKeys == "{}"
ContentBadJson == "{query"
\* valid JSON that is not an object
ContentNotObject == "[]"
ContentNumber == "{\"number\": 1}"
Contents == {ContentQuery, ContentNoKeys, ContentBadJson, ContentNotObject,
             ContentNumber}
\* further inputs of numberRace, each with json.loads(content).get("number"):
\* a JSON integer n, a JSON string (its characters s), a JSON real (n, and
\* s after the point), a JSON boolean, or None for a null
NumberInputs ==
    {<<"{\"number\": 0}", [t |-> "int", n |-> 0, s |-> <<>>]>>,
     <<"{\"number\": 3}", [t |-> "int", n |-> 3, s |-> <<>>]>>,
     <<"{\"number\": 12}", [t |-> "int", n |-> 12, s |-> <<>>]>>,
     <<"{\"number\": -2}", [t |-> "int", n |-> 0 - 2, s |-> <<>>]>>,
     <<"{\"number\": \"3\"}", [t |-> "str", n |-> 0, s |-> <<"3">>]>>,
     <<"{\"number\": \" 2 \"}", [t |-> "str", n |-> 0, s |-> <<" ", "2", " ">>]>>,
     <<"{\"number\": \"+2\"}", [t |-> "str", n |-> 0, s |-> <<"+", "2">>]>>,
     <<"{\"number\": \"-1\"}", [t |-> "str", n |-> 0, s |-> <<"-", "1">>]>>,
     <<"{\"number\": \"2.5\"}", [t |-> "str", n |-> 0, s |-> <<"2", ".", "5">>]>>,
     <<"{\"number\": \"abc\"}", [t |-> "str", n |-> 0, s |-> <<"a", "b", "c">>]>>,
     <<"{\"number\": \"\"}", [t |-> "str", n |-> 0, s |-> <<>>]>>,
     <<"{\"number\": 2.5}", [t |-> "float", n |-> 2, s |-> <<"5">>]>>,
     <<"{\"number\": 3.0}", [t |-> "float", n |-> 3, s |-> <<"0">>]>>,
     <<"{\"number\": true}", [t |-> "bool", n |-> 1, s |-> <<>>]>>,
     <<"{\"number\": null}", [t |-> "none", n |-> 0, s |-> <<>>]>>}

\* str.lower() on the tool names that occur
Lower(name) ==
    CASE name = "agentSearch" -> "agentsearch"
      [] name = "imageAnalyzer" -> "imageanalyzer"
      [] name = "getWeather" -> "getweather"
      [] name = "numberRace" -> "numberrace"
      [] OTHER -> name

\* json.loads(content) succeeds
JsonValid(content) ==
    content \in {ContentQuery, ContentNoKeys, ContentNotObject, ContentNumber}
                \cup {p[1] : p \in NumberInputs}
\* the parsed value is a dict, so that .get(...) can be called on it
JsonObject(content) ==
    content \in {ContentQuery, ContentNoKeys, ContentNumber}
                \cup {p[1] : p \in NumberInputs}
\* json.loads(content).get("query", "")
JsonQuery(content) == IF content = ContentQuery THEN "X" ELSE ""
\* json.loads(content).get("context", "the current page content")
JsonContext(content) == "the current page content"

\* keys of BedrockStreamManager.tool_handlers
tool_handlers == {"getweather", "numberrace", "agentsearch", "imageanalyzer"}
\* the handlers processToolUse calls with the manager instance
SlowTools == {"agentsearch", "imageanalyzer"}

(***************************************************************************)
(* Upstream events (decoded JSON) and outbound queue items.                *)
(***************************************************************************)
ToolUseEvent(n, i, c) ==
    [type |-> "toolUse", toolName |-> n, toolUseId |-> i, content |-> c]
PlainEvent(t) ==
    [type |-> t, toolName |-> "", toolUseId |-> "", content |-> ""]
\* the toolUse events of the tool lifecycle: the two slow tools, a tool-use
\* with an empty id and a tool that has no handler
ToolUseEvents ==
    {ToolUseEvent("agentSearch", i, ContentQuery) : i \in ToolUseIds}
    \cup {ToolUseEvent("imageAnalyzer", "t1", ContentQuery),
          ToolUseEvent("agentSearch", "", ContentQuery),
          ToolUseEvent("translate", "t1", ContentQuery)}
\* the toolUse events of the response loop: a slow tool, the two tools whose
\* handlers get only the content, a tool without a handler, and content that
\* makes the agentSearch handler return an error or raise
LoopToolUseEvents ==
    {ToolUseEvent("agentSearch", "t1", ContentQuery),
     ToolUseEvent("agentSearch", "t1", ContentNotObject),
     ToolUseEvent("agentSearch", "t1", ContentBadJson),
     ToolUseEvent("numberRace", "t2", ContentNumber),
     ToolUseEvent("getWeather", "t2", ContentQuery),
     ToolUseEvent("translate", "t2", ContentQuery)}
ContentEndTool == PlainEvent("contentEnd:TOOL")
OtherEvents == {PlainEvent("textOutput")}

\* the None the response loop puts last
Sentinel == [kind |-> "None", body |-> [none |-> TRUE]]
EventItem(e) == [kind |-> "event", body |-> e]
JsonErrorItem == [kind |-> "JSONDecodeError", body |-> [raw |-> "raw_data"]]
FatalErrorItem == [kind |-> "BedrockStreamError", body |-> [fatal |-> TRUE]]
\* what websocket_handler sends when initialize_stream raised
InitErrorItem ==
    [kind |-> "BedrockInitializationError", body |-> [fatal |-> TRUE]]
Notification(name, id, status) ==
    [kind |-> "toolCompletionNotification",
     body |-> [toolName |-> name, toolUseId |-> id, status |-> status]]
ScreenshotRequest(op) ==
    [kind |-> "requestScreenshotForAnalysis", body |-> [imageAnalysisId |-> op]]

(***************************************************************************)
(* State.                                                                  *)
(***************************************************************************)
VARIABLES
    stream_response,    \* TRUE once the bidirectional stream is open
    is_active,
    rl_pc,              \* position of _process_responses
    handled,            \* upstream events received and direct calls so far
    toolName, toolUseId, toolUseContent,
    toolResult,         \* the local toolResult of the tool branch
    completed_async_tool_results,   \* cache key -> payload
    active_background_tasks,        \* toolUseId -> index into tasks
    tasks,              \* every background unit created (asyncio.Task)
    pending_screenshot_events,      \* operation id -> the Event is set
    received_screenshot_data,       \* operation id -> delivered data
    wait_ended,         \* operation id -> how its wait_for ended (history)
    ignored_delivery,   \* {id} for the operation id of the latest client
                        \* delivery that found no registration and was
                        \* logged only, {} before the first (history)
    launch_refusals,    \* ids for which a launch was refused (history)
    put_log,            \* every item put on output_queue, in order
    taken,              \* items the forwarder has dequeued
    forward_pc,         \* position of forward_responses
    ws_open,            \* the client connection is open
    ws_sent,            \* every item handed to websocket.send, in order
    toolContent,        \* the uuid4 of the tool branch, as a counter
    sent_upstream,      \* every event send_raw_event handed to the stream
    upstream_faults,    \* what went wrong in the loop so far: "JSONDecodeError"
                        \* or the message of the exception that ended it
    client_msgs,        \* client messages websocket_handler has taken
    client_faults,      \* how many of them were no valid JSON
    audio_input_queue,  \* audio chunks waiting in audio_input_queue
    audio_pc,           \* position of _process_audio_input
    send_errors,        \* upstream sends that raised inside send_raw_event
    slept               \* seconds for which time.sleep held the event loop

vars == <<stream_response, is_active, rl_pc, handled, toolName, toolUseId,
          toolUseContent, toolResult, completed_async_tool_results,
          active_background_tasks, tasks, pending_screenshot_events,
          received_screenshot_data, wait_ended, ignored_delivery,
          launch_refusals, put_log, taken,
          forward_pc, ws_open, ws_sent, toolContent, sent_upstream,
          upstream_faults, client_msgs, client_faults, audio_input_queue,
          audio_pc, send_errors, slept>>

loopVars == <<stream_response, is_active, rl_pc, handled>>
captureVars == <<toolName, toolUseId, toolUseContent>>
tableVars == <<completed_async_tool_results, active_background_tasks, tasks,
               launch_refusals>>
screenshotVars == <<pending_screenshot_events, received_screenshot_data,
                    wait_ended, ignored_delivery>>
clientVars == <<taken, forward_pc, ws_open, ws_sent>>
upstreamVars == <<toolContent, sent_upstream, upstream_faults>>
handlerVars == <<client_msgs, client_faults, audio_input_queue, audio_pc,
                 send_errors, slept>>

\* the items waiting in output_queue
output_queue == SubSeq(put_log, taken + 1, Len(put_log))

EmptyMap == [x \in {} |-> x]
MapPut(f, k, v) == [x \in DOMAIN f \cup {k} |-> IF x = k THEN v ELSE f[x]]
MapDel(f, k) == [x \in DOMAIN f \ {k} |-> f[x]]

NoResult == [status |-> "", result |-> "", data |-> [none |-> TRUE]]
NoContent == [toolName |-> "", toolUseId |-> "", content |-> ""]

Init ==
    /\ stream_response = FALSE
    /\ is_active = FALSE
    /\ rl_pc = "not_started"
    /\ handled = 0
    /\ toolName = ""
    /\ toolUseId = ""
    /\ toolUseContent = NoContent
    /\ toolResult = NoResult
    /\ completed_async_tool_results = EmptyMap
    /\ active_background_tasks = EmptyMap
    /\ tasks = <<>>
    /\ pending_screenshot_events = EmptyMap
    /\ received_screenshot_data = EmptyMap
    /\ wait_ended = EmptyMap
    /\ ignored_delivery = {}
    /\ launch_refusals = {}
    /\ put_log = <<>>
    /\ taken = 0
    /\ forward_pc = "not_started"
    /\ ws_open = TRUE
    /\ ws_sent = <<>>
    /\ toolContent = 0
    /\ sent_upstream = <<>>
    /\ upstream_faults = <<>>
    /\ client_msgs = 0
    /\ client_faults = 0
    /\ audio_input_queue = 0
    /\ audio_pc = "not_started"
    /\ send_errors = 0
    /\ slept = 0


(***************************************************************************)
(* BedrockStreamManager.launch_background_tool_task                        *)
(***************************************************************************)
\* a background unit: the asyncio.Task running task_wrapper
NewUnit(id, name, work, arg, op) ==
    [tool_use_id |-> id, tool_name |-> name, work |-> work, arg |-> arg,
     op |-> op, st |-> "scheduled", outcome |-> "none", writes |-> 0,
     retrieved |-> 0, at_teardown |-> FALSE]

\* a launch that never looks at the table
LaunchRefused_Never(id) == FALSE
\* "if tool_use_id in self.active_background_tasks: ... return"
LaunchRefused(id) == id \in DOMAIN active_background_tasks

\* a launch that creates the task and does not enter it in the table
launch_background_tool_task_Unregistered(id, name, work, arg, op) ==
    /\ Len(tasks) < MaxUnits
    /\ tasks' = Append(tasks, NewUnit(id, name, work, arg, op))
    /\ UNCHANGED <<active_background_tasks, launch_refusals>>
\* create_task(task_wrapper()) and the table entry; the unit does not run
\* before the caller next suspends
launch_background_tool_task(id, name, work, arg, op) ==
    IF LaunchRefused(id)
    THEN /\ launch_refusals' = launch_refusals \cup {id}
         /\ UNCHANGED <<active_background_tasks, tasks>>
    ELSE /\ Len(tasks) < MaxUnits
         /\ tasks' = Append(tasks, NewUnit(id, name, work, arg, op))
         /\ active_background_tasks' =
                MapPut(active_background_tasks, id, Len(tasks) + 1)
         /\ UNCHANGED launch_refusals

(***************************************************************************)
(* The slow-tool handlers: handle_agent_search, handle_imageanalyzer       *)
(***************************************************************************)
Result(status, result) == [status |-> status, result |-> result, data |-> [none |-> TRUE]]
CachedResult(payload) == [status |-> "success", result |-> "cached", data |-> payload]

\* "if cache_key_to_check in manager_instance.completed_async_tool_results"
CacheHit(key) == key \in DOMAIN completed_async_tool_results
\* a retrieval that reads the entry and leaves it in the cache
CachePop_Keep(cache, key) == cache
\* completed_async_tool_results.pop(cache_key_to_check)
CachePop(cache, key) == MapDel(cache, key)
\* a handler that skips the active-task check
TaskActive_Never(id) == FALSE
\* "if tool_use_id in manager_instance.active_background_tasks"
TaskActive(id) == id \in DOMAIN active_background_tasks

\* a handler that looks in the cache before it checks its input
SlowToolPath_CacheFirst(tuc, needsQuery) ==
    IF CacheHit(Lower(tuc.toolName)) THEN "cache_hit"
    ELSE IF tuc.toolUseId = "" THEN "missing_id"
    ELSE IF ~JsonValid(tuc.content) THEN "invalid_json"
    ELSE IF ~JsonObject(tuc.content) THEN "not_object"
    ELSE IF needsQuery /\ JsonQuery(tuc.content) = "" THEN "empty_query"
    ELSE IF TaskActive(tuc.toolUseId) THEN "still_working"
    ELSE "launch"
\* the branch a slow-tool handler takes; needsQuery: agentSearch rejects
\* an empty query, imageAnalyzer has no required input
SlowToolPath(tuc, needsQuery) ==
    IF tuc.toolUseId = "" THEN "missing_id"
    ELSE IF ~JsonValid(tuc.content) THEN "invalid_json"
    ELSE IF ~JsonObject(tuc.content) THEN "not_object"
    ELSE IF needsQuery /\ JsonQuery(tuc.content) = "" THEN "empty_query"
    ELSE IF CacheHit(Lower(tuc.toolName)) THEN "cache_hit"
    ELSE IF TaskActive(tuc.toolUseId) THEN "still_working"
    ELSE "launch"

\* the part the two handlers share, from the cache lookup on
SlowToolRetrieve(tuc, path, work, arg) ==
    LET key == Lower(tuc.toolName) IN
    CASE path = "cache_hit" ->
            /\ toolResult' = CachedResult(completed_async_tool_results[key])
            /\ completed_async_tool_results' =
                   CachePop(completed_async_tool_results, key)
            /\ tasks' = [tasks EXCEPT
                   ![completed_async_tool_results[key].unit].retrieved = @ + 1]
            /\ UNCHANGED <<active_background_tasks, launch_refusals>>
      [] path = "still_working" ->
            /\ toolResult' = Result("success", "still_working")
            /\ UNCHANGED tableVars
      [] path = "launch" ->
            /\ launch_background_tool_task(tuc.toolUseId, tuc.toolName, work,
                                           arg, Len(tasks) + 1)
            /\ toolResult' = Result("success", "starting")
            /\ UNCHANGED completed_async_tool_results
      [] OTHER ->
            /\ toolResult' = Result("error", path)
            /\ UNCHANGED tableVars

handle_agent_search(tuc) ==
    SlowToolRetrieve(tuc, SlowToolPath(tuc, TRUE), "agent_search",
                     JsonQuery(tuc.content))

handle_imageanalyzer(tuc) ==
    SlowToolRetrieve(tuc, SlowToolPath(tuc, FALSE), "image_analysis",
                     JsonContext(tuc.content))

(***************************************************************************)
(* The handlers that get only the tool-use content                         *)
(***************************************************************************)
\* json.loads(content).get("number"); None for a missing key
JsonNumber(content) ==
    IF content = ContentNumber THEN [t |-> "int", n |-> 1, s |-> <<>>]
    ELSE IF \E p \in NumberInputs : p[1] = content
    THEN (CHOOSE p \in NumberInputs : p[1] = content)[2]
    ELSE [t |-> "none", n |-> 0, s |-> <<>>]

\* str(number)
PyStr(v) ==
    LET digits == <<"0", "1", "2", "3", "4", "5", "6", "7", "8", "9">>
        RECURSIVE Decimal(_)
        Decimal(n) == IF n < Len(digits) THEN <<digits[n + 1]>>
                      ELSE Append(Decimal(n \div Len(digits)),
                                  digits[(n % Len(digits)) + 1])
    IN  CASE v.t = "int" ->
                IF v.n < 0 THEN <<"-">> \o Decimal(0 - v.n) ELSE Decimal(v.n)
          [] v.t = "str" -> v.s
          [] v.t = "float" -> Decimal(v.n) \o <<".">> \o v.s
          [] v.t = "bool" -> <<"T", "r", "u", "e">>
          [] OTHER -> <<"N", "o", "n", "e">>
\* int(s) for a string: white space is stripped, one sign is taken and one
\* digit or more must follow (digit separators are left out); raises is
\* the ValueError
PyInt(s) ==
    LET digits == <<"0", "1", "2", "3", "4", "5", "6", "7", "8", "9">>
        RECURSIVE StripLeft(_), StripRight(_), Value(_)
        StripLeft(x) == IF x # <<>> /\ Head(x) = " " THEN StripLeft(Tail(x))
                        ELSE x
        StripRight(x) == IF x # <<>> /\ x[Len(x)] = " "
                         THEN StripRight(SubSeq(x, 1, Len(x) - 1)) ELSE x
        Value(x) == IF x = <<>> THEN 0
                    ELSE Value(SubSeq(x, 1, Len(x) - 1)) * Len(digits)
                         + (CHOOSE d \in 1..Len(digits) : digits[d] = x[Len(x)])
                         - 1
        text == StripRight(StripLeft(s))
        signed == text # <<>> /\ Head(text) \in {"+", "-"}
        body == IF signed THEN Tail(text) ELSE text
        wellFormed == /\ body # <<>>
                      /\ \A i \in 1..Len(body) :
                            \E d \in 1..Len(digits) : digits[d] = body[i]
    IN  IF ~wellFormed THEN [raises |-> TRUE, n |-> 0]
        ELSE [raises |-> FALSE,
              n |-> IF Head(text) = "-" THEN 0 - Value(body) ELSE Value(body)]
\* is_integer(value): int(value) does not raise
is_integer(s) == ~PyInt(s).raises

\* a time.sleep that takes any number
SleepRaises_Never(seconds) == FALSE
\* time.sleep raises ValueError for a negative length
SleepRaises(seconds) == seconds < 0
\* the branch handle_number_race takes; "int(number)" of a number that
\* passed is_integer(str(number)) is the int of that string
NumberRacePath(content) ==
    IF ~JsonValid(content) THEN "invalid_json"
    ELSE IF ~JsonObject(content) THEN "unexpected_in_tool"
    ELSE IF JsonNumber(content).t = "none" THEN "no_number"
    ELSE IF ~is_integer(PyStr(JsonNumber(content))) THEN "not_an_integer"
    ELSE IF SleepRaises(PyInt(PyStr(JsonNumber(content))).n)
    THEN "unexpected_in_tool"
    ELSE "done_waiting"

\* handle_number_race: time.sleep blocks the event loop, so the whole
\* handler is one step; data.seconds is the N of "I am done waiting for N
\* seconds."
handle_number_race(tuc) ==
    LET path == NumberRacePath(tuc.content)
        num_val == PyInt(PyStr(JsonNumber(tuc.content))).n
    IN  /\ toolResult' =
             IF path = "done_waiting"
             THEN [status |-> "success", result |-> path,
                   data |-> [seconds |-> num_val]]
             ELSE Result("error", path)
        /\ slept' = IF path = "done_waiting" THEN slept + num_val ELSE slept
        /\ UNCHANGED tableVars

\* handle_get_weather: the agent call is synchronous; it returns or raises
handle_get_weather(tuc) ==
    /\ \E agentOk \in BOOLEAN :
         toolResult' =
           IF ~JsonValid(tuc.content) THEN Result("error", "invalid_json")
           ELSE IF ~JsonObject(tuc.content) THEN Result("error", "weather_error")
           ELSE IF agentOk THEN Result("success", "weather")
           ELSE Result("error", "weather_error")
    /\ UNCHANGED tableVars

(***************************************************************************)
(* BedrockStreamManager.processToolUse                                     *)
(***************************************************************************)
\* the handler raises: handle_agent_search catches only JSONDecodeError, so
\* .get on a parsed value that is no dict leaves it as AttributeError; the
\* other three handlers catch every Exception themselves
HandlerRaises(tool_key, tuc) ==
    tool_key = "agentsearch" /\ SlowToolPath(tuc, TRUE) = "not_object"
\* a dispatch that reports a raising handler as a success
HandlerErrorResult_Success == Result("success", "unexpected_error")
\* "except Exception as e: ... return {result: ..., status: error}"
HandlerErrorResult == Result("error", "unexpected_error")
\* a dispatch that takes every tool name as registered
NotRecognized_Dispatched(tool_key) == FALSE
\* "if tool_key in self.tool_handlers: ... else:"
NotRecognized(tool_key) == tool_key \notin tool_handlers

processToolUse(name, tuc) ==
    LET tool_key == Lower(name) IN
    IF NotRecognized(tool_key)
    THEN /\ toolResult' = Result("error", "not_recognized")
         /\ UNCHANGED <<tableVars, slept>>
    ELSE IF HandlerRaises(tool_key, tuc)
    THEN /\ toolResult' = HandlerErrorResult
         /\ UNCHANGED <<tableVars, slept>>
    ELSE CASE tool_key = "agentsearch" ->
                handle_agent_search(tuc) /\ UNCHANGED slept
           [] tool_key = "imageanalyzer" ->
                handle_imageanalyzer(tuc) /\ UNCHANGED slept
           [] tool_key = "numberrace" -> handle_number_race(tuc)
           [] OTHER -> handle_get_weather(tuc) /\ UNCHANGED slept


(***************************************************************************)
(* BedrockStreamManager.initialize_stream, called by websocket_handler     *)
(***************************************************************************)
\* the stream opens: the response loop and the audio loop start, and
\* websocket_handler starts forward_responses
InitializeStreamOk ==
    /\ rl_pc = "not_started" /\ ws_open /\ ~stream_response
    /\ stream_response' = TRUE
    /\ is_active' = TRUE
    /\ rl_pc' = "recv"
    /\ audio_pc' = "running"
    /\ forward_pc' = "running"
    /\ UNCHANGED <<slept, client_msgs, client_faults, audio_input_queue,
                   send_errors, upstreamVars, handled, captureVars, toolResult, tableVars,
                   screenshotVars, put_log, taken, ws_open, ws_sent>>

\* a handler that reports the failure and goes on to its message loop
InitializeStreamFails_Listening(sendOk) ==
    /\ rl_pc = "not_started" /\ ws_open /\ ~stream_response
    /\ is_active' = FALSE
    /\ ws_sent' = IF sendOk THEN Append(ws_sent, InitErrorItem) ELSE ws_sent
    /\ forward_pc' = "running"
    /\ UNCHANGED <<handlerVars, upstreamVars, stream_response, rl_pc, handled,
                   captureVars, toolResult, tableVars, screenshotVars,
                   put_log, taken, ws_open>>
\* opening raises: ConnectionError; websocket_handler sends the client the
\* BedrockInitializationError (a send that raises is logged), closes the
\* connection and returns
InitializeStreamFails(sendOk) ==
    /\ rl_pc = "not_started" /\ ws_open /\ ~stream_response
    /\ is_active' = FALSE
    /\ ws_sent' = IF sendOk THEN Append(ws_sent, InitErrorItem) ELSE ws_sent
    /\ ws_open' = FALSE
    /\ UNCHANGED <<handlerVars, upstreamVars, stream_response, rl_pc, handled,
                   captureVars, toolResult, tableVars, screenshotVars,
                   put_log, taken, forward_pc>>

(***************************************************************************)
(* BedrockStreamManager._process_responses                                 *)
(***************************************************************************)
Put(item) == put_log' = Append(put_log, item)

\* the loop is suspended in await_output()/receive() and gets an event
Receiving == rl_pc = "recv" /\ is_active /\ handled < MaxEvents

\* a loop that keeps the tool use it has captured
RecvToolUse_KeepsFirst(e) ==
    /\ Receiving
    /\ handled' = handled + 1
    /\ IF toolUseId = ""
       THEN /\ toolUseContent' = [toolName |-> e.toolName,
                                  toolUseId |-> e.toolUseId,
                                  content |-> e.content]
            /\ toolName' = e.toolName
            /\ toolUseId' = e.toolUseId
       ELSE UNCHANGED captureVars
    /\ Put(EventItem(e))
    /\ UNCHANGED <<handlerVars, upstreamVars, stream_response, is_active, rl_pc, toolResult, tableVars,
                   screenshotVars, clientVars>>
\* "elif 'toolUse' in event_data": capture, then forward the event
RecvToolUse(e) ==
    /\ Receiving
    /\ handled' = handled + 1
    /\ toolUseContent' = [toolName |-> e.toolName, toolUseId |-> e.toolUseId,
                          content |-> e.content]
    /\ toolName' = e.toolName
    /\ toolUseId' = e.toolUseId
    /\ Put(EventItem(e))
    /\ UNCHANGED <<handlerVars, upstreamVars, stream_response, is_active, rl_pc, toolResult, tableVars,
                   screenshotVars, clientVars>>

\* the three events of a tool result, as sent upstream
ToolStartEvent(contentName, id) ==
    [type |-> "contentStart", contentName |-> contentName, toolUseId |-> id,
     status |-> ""]
ToolResultEvent(contentName, status) ==
    [type |-> "toolResult", contentName |-> contentName, toolUseId |-> "",
     status |-> status]
ToolContentEndEvent(contentName) ==
    [type |-> "contentEnd", contentName |-> contentName, toolUseId |-> "",
     status |-> ""]
\* a status that is always success
ToolResultStatus_AlwaysSuccess(result) == "success"
\* "error" if toolResult.get("status") == "error" else "success"
ToolResultStatus(result) ==
    IF result.status = "error" THEN "error" ELSE "success"

\* a send_raw_event that hands the event over without looking at the flags
SendGuard_None == TRUE
\* "if not self.stream_response or not self.is_active: ... return"
SendGuard == stream_response /\ is_active
\* send_raw_event: nothing is sent unless the stream is open and active
send_raw_event(event) ==
    sent_upstream' = IF SendGuard THEN Append(sent_upstream, event)
                     ELSE sent_upstream

\* "elif 'contentEnd' ... type == 'TOOL'": processToolUse runs to its return
\* and the content name of the result is drawn
RecvContentEndTool ==
    /\ Receiving
    /\ handled' = handled + 1
    /\ processToolUse(toolName, toolUseContent)
    /\ toolContent' = toolContent + 1
    /\ rl_pc' = "tool_start"
    /\ UNCHANGED <<client_msgs, client_faults, audio_input_queue, audio_pc,
                   send_errors, stream_response, is_active, captureVars,
                   screenshotVars, put_log, clientVars, sent_upstream,
                   upstream_faults>>

\* send_raw_event(tool_start_event) has returned
SendToolStart_Unsent ==
    /\ rl_pc = "tool_start"
    /\ rl_pc' = "tool_result"
    /\ UNCHANGED <<handlerVars, stream_response, is_active, handled, captureVars,
                   toolResult, tableVars, screenshotVars, put_log,
                   clientVars, toolContent, upstream_faults, sent_upstream>>
SendToolStart ==
    /\ rl_pc = "tool_start"
    /\ send_raw_event(ToolStartEvent(toolContent, toolUseId))
    /\ rl_pc' = "tool_result"
    /\ UNCHANGED <<handlerVars, stream_response, is_active, handled, captureVars,
                   toolResult, tableVars, screenshotVars, put_log,
                   clientVars, toolContent, upstream_faults>>

\* a loop that forwards the contentEnd event before the triad is complete
SendToolResult_Forwards ==
    /\ rl_pc = "tool_result"
    /\ send_raw_event(ToolResultEvent(toolContent, ToolResultStatus(toolResult)))
    /\ rl_pc' = "tool_end"
    /\ Put(EventItem(ContentEndTool))
    /\ UNCHANGED <<handlerVars, stream_response, is_active, handled, captureVars,
                   toolResult, tableVars, screenshotVars,
                   clientVars, toolContent, upstream_faults>>
\* send_raw_event(tool_result_event) has returned
SendToolResult ==
    /\ rl_pc = "tool_result"
    /\ send_raw_event(ToolResultEvent(toolContent, ToolResultStatus(toolResult)))
    /\ rl_pc' = "tool_end"
    /\ UNCHANGED <<handlerVars, stream_response, is_active, handled, captureVars,
                   toolResult, tableVars, screenshotVars, put_log,
                   clientVars, toolContent, upstream_faults>>

\* send_raw_event(tool_content_end_event) has returned; the contentEnd event
\* is forwarded and the loop receives again
SendToolEnd ==
    /\ rl_pc = "tool_end"
    /\ send_raw_event(ToolContentEndEvent(toolContent))
    /\ rl_pc' = "recv"
    /\ toolResult' = NoResult
    /\ Put(EventItem(ContentEndTool))
    /\ UNCHANGED <<handlerVars, stream_response, is_active, handled, captureVars,
                   tableVars, screenshotVars, clientVars, toolContent,
                   upstream_faults>>

\* a loop that forgets the captured tool use on any other event
RecvOther_ClearsCapture(e) ==
    /\ Receiving
    /\ handled' = handled + 1
    /\ Put(EventItem(e))
    /\ toolName' = "" /\ toolUseId' = "" /\ toolUseContent' = NoContent
    /\ UNCHANGED <<handlerVars, upstreamVars, stream_response, is_active, rl_pc, toolResult,
                   tableVars, screenshotVars, clientVars>>
\* any other parsed event: forwarded
RecvOther(e) ==
    /\ Receiving
    /\ handled' = handled + 1
    /\ Put(EventItem(e))
    /\ UNCHANGED <<handlerVars, upstreamVars, stream_response, is_active, rl_pc, captureVars, toolResult,
                   tableVars, screenshotVars, clientVars>>

\* what went wrong when json.loads raised
JsonFault == <<"JSONDecodeError">>
\* a loop that logs the bad payload and queues nothing
RecvBadJson_Dropped ==
    /\ Receiving
    /\ handled' = handled + 1
    /\ upstream_faults' = Append(upstream_faults, JsonFault)
    /\ UNCHANGED <<handlerVars, toolContent, sent_upstream, stream_response, is_active,
                   rl_pc, captureVars, toolResult, tableVars, screenshotVars,
                   put_log, clientVars>>
\* json.loads raises JSONDecodeError
RecvBadJson ==
    /\ Receiving
    /\ handled' = handled + 1
    /\ Put(JsonErrorItem)
    /\ upstream_faults' = Append(upstream_faults, JsonFault)
    /\ UNCHANGED <<handlerVars, toolContent, sent_upstream, stream_response, is_active,
                   rl_pc, captureVars, toolResult, tableVars, screenshotVars,
                   clientVars>>

\* what teardown does to the background units: no code path cancels them
\* or touches the tables; the units then in the active-task table are marked
TeardownUnits ==
    /\ tasks' = [u \in 1..Len(tasks) |->
                   IF tasks[u].tool_use_id \in DOMAIN active_background_tasks
                      /\ active_background_tasks[tasks[u].tool_use_id] = u
                   THEN [tasks[u] EXCEPT !.at_teardown = TRUE]
                   ELSE tasks[u]]
    /\ UNCHANGED <<completed_async_tool_results, active_background_tasks,
                   launch_refusals>>

\* a finally block that puts no None
LoopExit_NoSentinel(items, pc) ==
    /\ is_active' = FALSE
    /\ put_log' = put_log \o items
    /\ rl_pc' = pc
\* an exit that leaves the loop receiving
LoopExit_Retry(items, pc) ==
    /\ is_active' = TRUE
    /\ put_log' = put_log \o items
    /\ rl_pc' = "recv"
\* the finally block: active cleared, the None put on the queue
LoopExit(items, pc) ==
    /\ is_active' = FALSE
    /\ put_log' = put_log \o items \o <<Sentinel>>
    /\ rl_pc' = pc

\* no output event, a null value or StopAsyncIteration: break
RecvStreamEnd ==
    /\ Receiving
    /\ handled' = handled + 1
    /\ LoopExit(<<>>, "done")
    /\ UNCHANGED <<handlerVars, upstreamVars, stream_response, captureVars, toolResult, tableVars,
                   screenshotVars, clientVars>>

\* str(e) of the exceptions a receive raises, as the sequence of its parts:
\* one with each fatal signature, one with none and one that differs from a
\* signature in case only
ErrorMessages ==
    {<<"Invalid voice ID", ": x">>, <<"ValidationException", ": bad input">>,
     <<"2 ", "Error(s):", " a; b">>, <<"Connection reset">>,
     <<"validationexception">>}
\* the messages of the tool-lifecycle specifications: a fatal one and another
LifecycleErrorMessages ==
    {<<"ValidationException", ": bad input">>, <<"Connection reset">>}
FatalSignatures == {"Invalid voice ID", "ValidationException", "Error(s):"}
\* "Invalid voice ID" in s or "ValidationException" in s or "Error(s):" in s
IsFatal(msg) == \E i \in 1..Len(msg) : msg[i] \in FatalSignatures
\* an error branch that reports every error as fatal
ErrorItems_AlwaysFatal(msg) == <<FatalErrorItem>>
\* "if is_fatal_bedrock_error: ... output_queue.put(error_payload)"
ErrorItems(msg) == IF IsFatal(msg) THEN <<FatalErrorItem>> ELSE <<>>

\* the loop's "except Exception" branch and the finally block
LoopError(msg) ==
    /\ LoopExit(ErrorItems(msg), "done")
    /\ upstream_faults' = Append(upstream_faults, msg)

\* a receive raises
RecvError(msg) ==
    /\ Receiving
    /\ handled' = handled + 1
    /\ LoopError(msg)
    /\ UNCHANGED <<handlerVars, toolContent, sent_upstream, stream_response, captureVars,
                   toolResult, tableVars, screenshotVars, clientVars>>

\* a toolUse event without a toolName: line 355 has assigned toolUseContent
\* when line 356 raises KeyError, which the loop's "except Exception" takes
\* as any non-fatal error
RecvToolUseNoName(id) ==
    /\ Receiving
    /\ handled' = handled + 1
    /\ toolUseContent' = [toolName |-> "", toolUseId |-> id,
                          content |-> ContentQuery]
    /\ LoopError(<<"KeyError", "'toolName'">>)
    /\ UNCHANGED <<handlerVars, toolContent, sent_upstream, stream_response, toolName,
                   toolUseId, toolResult, tableVars, screenshotVars,
                   clientVars>>


\* response_task.cancel() reaches the loop at one of its awaits:
\* "except asyncio.CancelledError", then the finally block
CancelResponses ==
    /\ rl_pc \in {"recv", "tool_start", "tool_result", "tool_end"}
    /\ LoopExit(<<>>, "cancelled")
    /\ toolResult' = NoResult
    /\ TeardownUnits
    /\ UNCHANGED <<handlerVars, upstreamVars, stream_response, handled, captureVars, screenshotVars,
                   clientVars>>


(***************************************************************************)
(* task_wrapper: how a background unit ends                                *)
(***************************************************************************)
\* a cache key that keeps the case of the tool name
CacheKey_Raw(name) == name
\* "cache_key = tool_name.lower()"
CacheKey(name) == Lower(name)
\* a cache that keeps the result it already has for the tool
CacheStore_KeepFirst(cache, name, payload) ==
    IF CacheKey(name) \in DOMAIN cache THEN cache
    ELSE MapPut(cache, CacheKey(name), payload)
\* "self.completed_async_tool_results[cache_key] = result_payload_for_cache"
CacheStore(cache, name, payload) == MapPut(cache, CacheKey(name), payload)
\* "finally: if tool_use_id in self.active_background_tasks: del ..."
TaskTableAfter(active, id) == MapDel(active, id)
\* a notification that always reports success
NotificationStatus_AlwaysSuccess(outcome) == "success"
\* status of the toolCompletionNotification
NotificationStatus(outcome) == IF outcome = "success" THEN "success" ELSE "error"

UnitDone(u, outcome, wrote) ==
    tasks' = [tasks EXCEPT ![u].st = "done", ![u].outcome = outcome,
                           ![u].writes = @ + wrote]

\* the work returned a payload: cache it, drop the table entry, notify
WrapperSucceeds(u, payload) ==
    /\ completed_async_tool_results' =
           CacheStore(completed_async_tool_results, tasks[u].tool_name, payload)
    /\ active_background_tasks' =
           TaskTableAfter(active_background_tasks, tasks[u].tool_use_id)
    /\ Put(Notification(tasks[u].tool_name, tasks[u].tool_use_id,
                        NotificationStatus("success")))
    /\ UnitDone(u, "success", 1)

\* the work raised: "except Exception", drop the table entry, notify
WrapperFails(u) ==
    /\ active_background_tasks' =
           TaskTableAfter(active_background_tasks, tasks[u].tool_use_id)
    /\ Put(Notification(tasks[u].tool_name, tasks[u].tool_use_id,
                        NotificationStatus("error")))
    /\ UnitDone(u, "error", 0)
    /\ UNCHANGED completed_async_tool_results

\* a wrapper that treats cancellation like any other exception
WrapperCancelled_Notifies(u) ==
    /\ active_background_tasks' =
           TaskTableAfter(active_background_tasks, tasks[u].tool_use_id)
    /\ Put(Notification(tasks[u].tool_name, tasks[u].tool_use_id, "error"))
    /\ UnitDone(u, "cancelled", 0)
    /\ UNCHANGED completed_async_tool_results
\* "except asyncio.CancelledError: return", then the finally block
WrapperCancelled(u) ==
    /\ active_background_tasks' =
           TaskTableAfter(active_background_tasks, tasks[u].tool_use_id)
    /\ UnitDone(u, "cancelled", 0)
    /\ UNCHANGED <<completed_async_tool_results, put_log>>

(***************************************************************************)
(* The work of a unit: _execute_agent_search_remotely and                  *)
(* _execute_image_analysis_remotely                                        *)
(***************************************************************************)
Units == 1..Len(tasks)

\* what _execute_agent_search_remotely returns: the A2A call failing is
\* caught there and returned as an error record
AgentPayload(u, ok) ==
    [error |-> ~ok, original |-> tasks[u].arg,
     searchId |-> tasks[u].tool_use_id, analysisId |-> 0, unit |-> u]
\* what _execute_image_analysis_remotely returns after the LLM call, whose
\* failure describe_image_with_llm returns as text
ImagePayload(u, ok) ==
    [error |-> ~ok, original |-> tasks[u].arg,
     searchId |-> "", analysisId |-> tasks[u].op, unit |-> u]

\* a finally block that drops the registration and keeps delivered data
ScreenshotCleanup_KeepsData(op, how) ==
    /\ pending_screenshot_events' = MapDel(pending_screenshot_events, op)
    /\ received_screenshot_data' = received_screenshot_data
    /\ wait_ended' = MapPut(wait_ended, op, how)
    /\ UNCHANGED ignored_delivery
\* the finally block after wait_for, which ended by the Event being set
\* ("signalled"), by TimeoutError ("timeout") or by CancelledError
ScreenshotCleanup(op, how) ==
    /\ pending_screenshot_events' = MapDel(pending_screenshot_events, op)
    /\ received_screenshot_data' = MapDel(received_screenshot_data, op)
    /\ wait_ended' = MapPut(wait_ended, op, how)
    /\ UNCHANGED ignored_delivery

\* the event loop runs the unit for the first time, up to its first await
UnitStart_RequestsUnregistered(u) ==
    /\ u \in Units /\ tasks[u].st = "scheduled"
    /\ IF tasks[u].work = "agent_search"
       THEN /\ tasks' = [tasks EXCEPT ![u].st = "a2a"]
            /\ UNCHANGED <<screenshotVars, put_log>>
       ELSE /\ tasks' = [tasks EXCEPT ![u].st = "wait_screenshot"]
            /\ Put(ScreenshotRequest(tasks[u].op))
            /\ UNCHANGED screenshotVars
    /\ UNCHANGED <<handlerVars, upstreamVars, loopVars, captureVars, toolResult, launch_refusals,
                   clientVars, completed_async_tool_results,
                   active_background_tasks>>
UnitStart(u) ==
    /\ u \in Units /\ tasks[u].st = "scheduled"
    /\ IF tasks[u].work = "agent_search"
       THEN /\ tasks' = [tasks EXCEPT ![u].st = "a2a"]
            /\ UNCHANGED <<screenshotVars, put_log>>
       ELSE /\ tasks' = [tasks EXCEPT ![u].st = "wait_screenshot"]
            /\ pending_screenshot_events' =
                   MapPut(pending_screenshot_events, tasks[u].op, FALSE)
            /\ Put(ScreenshotRequest(tasks[u].op))
            /\ UNCHANGED <<received_screenshot_data, wait_ended,
                           ignored_delivery>>
    /\ UNCHANGED <<handlerVars, upstreamVars, loopVars, captureVars, toolResult, launch_refusals,
                   clientVars, completed_async_tool_results,
                   active_background_tasks>>

\* the A2A client returns or raises
UnitAgentDone(u, ok) ==
    /\ u \in Units /\ tasks[u].st = "a2a"
    /\ WrapperSucceeds(u, AgentPayload(u, ok))
    /\ UNCHANGED <<handlerVars, upstreamVars, loopVars, captureVars, toolResult, screenshotVars,
                   launch_refusals, clientVars>>

\* the Event was set: the unit resumes after wait_for
UnitScreenshotWake(u, setupOk) ==
    /\ u \in Units /\ tasks[u].st = "wait_screenshot"
    /\ pending_screenshot_events[tasks[u].op]
    /\ ScreenshotCleanup(tasks[u].op, "signalled")
    /\ LET op == tasks[u].op
           got == op \in DOMAIN received_screenshot_data
           data == received_screenshot_data[op]
       IN IF got /\ data.kind = "imageDataUrl" /\ data.valid /\ setupOk
          THEN /\ tasks' = [tasks EXCEPT ![u].st = "llm"]
               /\ UNCHANGED <<completed_async_tool_results,
                              active_background_tasks, put_log>>
          ELSE WrapperFails(u)
    /\ UNCHANGED <<handlerVars, upstreamVars, loopVars, captureVars, toolResult, launch_refusals,
                   clientVars>>

\* a unit that returns its error record after the timeout, which the
\* wrapper caches like any returned payload
UnitScreenshotTimeout_Returns(u) ==
    /\ u \in Units /\ tasks[u].st = "wait_screenshot"
    /\ ScreenshotCleanup(tasks[u].op, "timeout")
    /\ WrapperSucceeds(u, ImagePayload(u, FALSE))
    /\ UNCHANGED <<handlerVars, upstreamVars, loopVars, captureVars, toolResult, launch_refusals,
                   clientVars>>
\* wait_for raises TimeoutError; the except branch then raises
\* UnboundLocalError (results_for_cache is not yet bound), which leaves the
\* coroutine after the finally block
UnitScreenshotTimeout(u) ==
    /\ u \in Units /\ tasks[u].st = "wait_screenshot"
    /\ ScreenshotCleanup(tasks[u].op, "timeout")
    /\ WrapperFails(u)
    /\ UNCHANGED <<handlerVars, upstreamVars, loopVars, captureVars, toolResult, launch_refusals,
                   clientVars>>

\* describe_image_with_llm returns a description or an error text
UnitLlmDone(u, ok) ==
    /\ u \in Units /\ tasks[u].st = "llm"
    /\ WrapperSucceeds(u, ImagePayload(u, ok))
    /\ UNCHANGED <<handlerVars, upstreamVars, loopVars, captureVars, toolResult, screenshotVars,
                   launch_refusals, clientVars>>

\* Task.cancel() on a unit: one that never ran does not run task_wrapper at
\* all; one suspended in its work gets CancelledError there
CancelUnit(u) ==
    /\ u \in Units /\ tasks[u].st # "done"
    /\ CASE tasks[u].st = "scheduled" ->
              /\ UnitDone(u, "never_ran", 0)
              /\ UNCHANGED <<completed_async_tool_results,
                             active_background_tasks, put_log, screenshotVars>>
         [] tasks[u].st = "wait_screenshot" ->
              /\ ScreenshotCleanup(tasks[u].op, "cancelled")
              /\ WrapperCancelled(u)
         [] OTHER ->
              /\ WrapperCancelled(u)
              /\ UNCHANGED screenshotVars
    /\ UNCHANGED <<handlerVars, upstreamVars, loopVars, captureVars, toolResult, launch_refusals,
                   clientVars>>

(***************************************************************************)
(* websocket_handler and forward_responses                                 *)
(***************************************************************************)
\* imageAnalysisId values of client messages: 0 is never registered
OperationIds == 0..MaxUnits
DeliveryKinds == {"image", "badurl", "error"}
ScreenshotData(kind) ==
    [kind |-> IF kind = "error" THEN "error" ELSE "imageDataUrl",
     valid |-> kind = "image"]

\* a deliver_screenshot_data that stores and signals whatever the id
deliver_screenshot_data_Unchecked(op, kind) ==
    /\ received_screenshot_data' =
          MapPut(received_screenshot_data, op, ScreenshotData(kind))
    /\ pending_screenshot_events' = MapPut(pending_screenshot_events, op, TRUE)
    /\ UNCHANGED wait_ended
\* deliver_screenshot_data: for a registered id it stores the data or the
\* error and sets the Event; for any other id it logs a warning
deliver_screenshot_data(op, kind) ==
    IF op \in DOMAIN pending_screenshot_events
    THEN /\ received_screenshot_data' =
               MapPut(received_screenshot_data, op, ScreenshotData(kind))
         /\ pending_screenshot_events' =
               [pending_screenshot_events EXCEPT ![op] = TRUE]
         /\ UNCHANGED wait_ended
    ELSE UNCHANGED <<pending_screenshot_events, received_screenshot_data,
                     wait_ended>>

\* a capturedScreenshotData message: deliver_screenshot_data
DeliverScreenshot(op, kind) ==
    /\ ws_open /\ forward_pc # "not_started"
    /\ deliver_screenshot_data(op, kind)
    /\ UNCHANGED <<ignored_delivery, handlerVars, upstreamVars, loopVars,
                   captureVars, toolResult, tableVars, put_log, clientVars>>

\* a capturedScreenshotData message, with the id of the warning kept
ClientScreenshot(op, kind) ==
    /\ ws_open /\ forward_pc # "not_started"
    /\ deliver_screenshot_data(op, kind)
    /\ ignored_delivery' =
          IF op \in DOMAIN pending_screenshot_events THEN ignored_delivery
          ELSE {op}
    /\ UNCHANGED <<handlerVars, upstreamVars, loopVars, captureVars,
                   toolResult, tableVars, put_log, clientVars>>

\* websocket_handler is in "async for message in websocket"
HandlerListening == ws_open /\ forward_pc # "not_started"
\* it takes the next client message
ClientTakes ==
    /\ HandlerListening /\ client_msgs < MaxClientMsgs
    /\ client_msgs' = client_msgs + 1

\* "except json.JSONDecodeError: logger.error(...)": the message is dropped
ClientBadJson ==
    /\ ClientTakes
    /\ client_faults' = client_faults + 1
    /\ UNCHANGED <<slept, audio_input_queue, audio_pc, send_errors, upstreamVars,
                   loopVars, captureVars, toolResult, tableVars,
                   screenshotVars, put_log, clientVars>>

\* the events of the client, as send_raw_event hands them to the stream
ClientEventRecord ==
    [type |-> "clientEvent", contentName |-> 0, toolUseId |-> "", status |-> ""]
AudioInputEvent ==
    [type |-> "audioInput", contentName |-> 0, toolUseId |-> "", status |-> ""]

\* send_raw_event with an input_stream.send that returns or raises: the
\* exception is logged (lines 198-201)
UpstreamSend(event, sendOk) ==
    /\ send_raw_event(event)
    /\ send_errors' = IF SendGuard /\ ~sendOk THEN send_errors + 1
                      ELSE send_errors

\* a client event other than audioInput: "await send_raw_event(data)"
ClientEvent(sendOk) ==
    /\ ClientTakes
    /\ UpstreamSend(ClientEventRecord, sendOk)
    /\ UNCHANGED <<slept, client_faults, audio_input_queue, audio_pc, toolContent,
                   upstream_faults, loopVars, captureVars, toolResult,
                   tableVars, screenshotVars, put_log, clientVars>>

\* an audioInput event: add_audio_chunk
ClientAudio ==
    /\ ClientTakes
    /\ audio_input_queue' = audio_input_queue + 1
    /\ UNCHANGED <<slept, client_faults, audio_pc, send_errors, upstreamVars,
                   loopVars, captureVars, toolResult, tableVars,
                   screenshotVars, put_log, clientVars>>

\* an audio loop that a raising send ends
AudioLoopStep_Raises(sendOk) ==
    /\ audio_pc = "running" /\ audio_input_queue > 0
    /\ audio_input_queue' = audio_input_queue - 1
    /\ UpstreamSend(AudioInputEvent, sendOk)
    /\ audio_pc' = IF is_active /\ sendOk THEN "running" ELSE "done"
    /\ UNCHANGED <<slept, client_msgs, client_faults, toolContent, upstream_faults,
                   loopVars, captureVars, toolResult, tableVars,
                   screenshotVars, put_log, clientVars>>
\* _process_audio_input gets a chunk, sends it and tests "while is_active"
AudioLoopStep(sendOk) ==
    /\ audio_pc = "running" /\ audio_input_queue > 0
    /\ audio_input_queue' = audio_input_queue - 1
    /\ UpstreamSend(AudioInputEvent, sendOk)
    /\ audio_pc' = IF is_active THEN "running" ELSE "done"
    /\ UNCHANGED <<slept, client_msgs, client_faults, toolContent, upstream_faults,
                   loopVars, captureVars, toolResult, tableVars,
                   screenshotVars, put_log, clientVars>>

\* a forwarder that does not look for the None
EndOfStream_Ignored(response) == FALSE
\* "if response is None: ... break"
EndOfStream(response) == response = Sentinel

\* forward_responses takes one item: the None ends it; any other item is
\* sent, and a send that raises ends it too
ForwardItem(sendOk) ==
    /\ forward_pc = "running" /\ taken < Len(put_log)
    /\ taken' = taken + 1
    /\ LET response == put_log[taken + 1] IN
       IF EndOfStream(response)
       THEN /\ forward_pc' = "done"
            /\ UNCHANGED ws_sent
       ELSE IF sendOk
       THEN /\ ws_sent' = Append(ws_sent, response)
            /\ UNCHANGED forward_pc
       ELSE /\ forward_pc' = "send_failed"
            /\ UNCHANGED ws_sent
    /\ UNCHANGED <<handlerVars, upstreamVars, loopVars, captureVars, toolResult, tableVars,
                   screenshotVars, put_log, ws_open>>

\* the client connection closes: "finally: forward_task.cancel()"
ConnectionClosed ==
    /\ ws_open /\ forward_pc # "not_started"
    /\ ws_open' = FALSE
    /\ forward_pc' = IF forward_pc = "running" THEN "cancelled" ELSE forward_pc
    /\ TeardownUnits
    /\ UNCHANGED <<handlerVars, upstreamVars, loopVars, captureVars, toolResult,
                   screenshotVars, put_log, taken, ws_sent>>

(***************************************************************************)
(* A call of launch_background_tool_task from outside the two handlers     *)
(* (the method is public; the handlers never call it for an active id).    *)
(***************************************************************************)
DirectLaunch(id, name) ==
    /\ stream_response /\ handled < MaxEvents
    /\ handled' = handled + 1
    /\ launch_background_tool_task(
           id, name,
           IF Lower(name) = "agentsearch" THEN "agent_search" ELSE "image_analysis",
           "X", Len(tasks) + 1)
    /\ UNCHANGED <<handlerVars, upstreamVars, stream_response, is_active, rl_pc, captureVars,
                   toolResult, screenshotVars, completed_async_tool_results,
                   put_log, clientVars>>

(***************************************************************************)
(* Specifications.                                                         *)
(***************************************************************************)
\* starting the session
SessionSteps ==
    \/ InitializeStreamOk
    \/ \E sendOk \in BOOLEAN : InitializeStreamFails(sendOk)

\* tearing the session down: they change no table and start no unit, and
\* only disable steps of the response loop and of the client
TeardownSteps ==
    \/ CancelResponses
    \/ ConnectionClosed

\* the response loop on tool events and on the end of the stream
ToolLoopSteps ==
    \/ \E e \in ToolUseEvents : RecvToolUse(e)
    \/ RecvContentEndTool
    \/ SendToolStart
    \/ SendToolResult
    \/ SendToolEnd
    \/ RecvStreamEnd
    \/ \E msg \in LifecycleErrorMessages : RecvError(msg)

\* the background units and the client's screenshot messages
UnitSteps ==
    \/ \E u \in 1..MaxUnits : UnitStart(u)
    \/ \E u \in 1..MaxUnits, ok \in BOOLEAN : UnitAgentDone(u, ok)
    \/ \E u \in 1..MaxUnits, setupOk \in BOOLEAN : UnitScreenshotWake(u, setupOk)
    \/ \E u \in 1..MaxUnits : UnitScreenshotTimeout(u)
    \/ \E u \in 1..MaxUnits, ok \in BOOLEAN : UnitLlmDone(u, ok)
    \/ \E u \in 1..MaxUnits : CancelUnit(u)
    \/ \E op \in OperationIds, kind \in DeliveryKinds : DeliverScreenshot(op, kind)

\* pass-through events and the forwarder: they write only put_log, taken
\* and forward_pc, which no tool-lifecycle step reads
PassThroughSteps ==
    \/ \E e \in OtherEvents : RecvOther(e)
    \/ RecvBadJson
    \/ \E sendOk \in BOOLEAN : ForwardItem(sendOk)

\* the tool lifecycle of one session
Next == SessionSteps \/ ToolLoopSteps \/ UnitSteps
Spec == Init /\ [][Next]_vars

\* the tool lifecycle of a session that may be torn down at any moment
NextTeardown == Next \/ TeardownSteps
SpecTeardown == Init /\ [][NextTeardown]_vars

\* agentSearch invocations together with direct calls of
\* launch_background_tool_task
NextApi ==
    \/ InitializeStreamOk
    \/ \E id \in ToolUseIds :
           RecvToolUse(ToolUseEvent("agentSearch", id, ContentQuery))
    \/ RecvContentEndTool
    \/ SendToolStart
    \/ SendToolResult
    \/ SendToolEnd
    \/ \E u \in 1..MaxUnits : UnitStart(u)
    \/ \E u \in 1..MaxUnits, ok \in BOOLEAN : UnitAgentDone(u, ok)
    \/ \E u \in 1..MaxUnits : CancelUnit(u)
    \/ \E id \in ToolUseIds : DirectLaunch(id, "agentSearch")
SpecApi == Init /\ [][NextApi]_vars

\* the response loop on every kind of upstream event, up to its exit; the
\* units it launches and the client side do not run here
NextLoop ==
    \/ InitializeStreamOk
    \/ \E e \in LoopToolUseEvents : RecvToolUse(e)
    \/ \E id \in ToolUseIds : RecvToolUseNoName(id)
    \/ RecvContentEndTool
    \/ SendToolStart
    \/ SendToolResult
    \/ SendToolEnd
    \/ RecvStreamEnd
    \/ \E msg \in ErrorMessages : RecvError(msg)
    \/ \E e \in OtherEvents : RecvOther(e)
    \/ RecvBadJson
    \/ CancelResponses
SpecLoop == Init /\ [][NextLoop]_vars

\* the outbound queue and the client: what the response loop and an
\* agentSearch unit put on the queue, the forwarder, the connection closing.
\* The event loop runs every task that is ready, so each step that stays
\* enabled is taken; upstream events and the closing of the connection are
\* up to the environment.
NextClient ==
    \/ InitializeStreamOk
    \/ RecvToolUse(ToolUseEvent("agentSearch", "t1", ContentQuery))
    \/ RecvContentEndTool
    \/ SendToolStart
    \/ SendToolResult
    \/ SendToolEnd
    \/ \E e \in OtherEvents : RecvOther(e)
    \/ RecvStreamEnd
    \/ \E u \in 1..MaxUnits : UnitStart(u)
    \/ \E u \in 1..MaxUnits, ok \in BOOLEAN : UnitAgentDone(u, ok)
    \/ \E sendOk \in BOOLEAN : ForwardItem(sendOk)
    \/ ConnectionClosed
SpecClient ==
    /\ Init /\ [][NextClient]_vars
    /\ WF_vars(ForwardItem(TRUE))
    /\ WF_vars(SendToolStart) /\ WF_vars(SendToolResult) /\ WF_vars(SendToolEnd)
    /\ \A u \in 1..MaxUnits :
          WF_vars(UnitStart(u)) /\ WF_vars(UnitAgentDone(u, TRUE))

\* the client's messages and the audio loop, beside a response loop that may
\* exit and a connection that may close
NextHandler ==
    \/ InitializeStreamOk
    \/ \E sendOk \in BOOLEAN : InitializeStreamFails(sendOk)
    \/ ClientBadJson
    \/ \E sendOk \in BOOLEAN : ClientEvent(sendOk)
    \/ ClientAudio
    \/ \E sendOk \in BOOLEAN : AudioLoopStep(sendOk)
    \/ \E e \in OtherEvents : RecvOther(e)
    \/ RecvStreamEnd
    \/ \E msg \in LifecycleErrorMessages : RecvError(msg)
    \/ ConnectionClosed
SpecHandler == Init /\ [][NextHandler]_vars

\* the tool-result sends of the response loop next to the sends of the
\* audio loop and of the connection handler, every send succeeding; the
\* tool use is a getWeather whose input is not JSON, so that its result
\* does not depend on the agent
NextSends ==
    \/ InitializeStreamOk
    \/ RecvToolUse(ToolUseEvent("getWeather", "t1", ContentBadJson))
    \/ RecvContentEndTool
    \/ SendToolStart
    \/ SendToolResult
    \/ SendToolEnd
    \/ ClientAudio
    \/ AudioLoopStep(TRUE)
    \/ ClientEvent(TRUE)
SpecSends == Init /\ [][NextSends]_vars

\* the slow-tool handlers on input they reject, next to a valid agentSearch
\* whose unit fills the cache
NextErrors ==
    \/ InitializeStreamOk
    \/ \E name \in {"agentSearch", "imageAnalyzer"}, id \in {"", "t1"},
          c \in {ContentQuery, ContentNoKeys, ContentBadJson} :
           RecvToolUse(ToolUseEvent(name, id, c))
    \/ RecvContentEndTool
    \/ SendToolStart
    \/ SendToolResult
    \/ SendToolEnd
    \/ \E u \in 1..MaxUnits : UnitStart(u)
    \/ \E u \in 1..MaxUnits : UnitAgentDone(u, TRUE)
SpecErrors == Init /\ [][NextErrors]_vars

\* imageAnalyzer invocations, their units and the client's screenshot
\* messages: the rendezvous between _execute_image_analysis_remotely and
\* deliver_screenshot_data
NextScreenshot ==
    \/ InitializeStreamOk
    \/ RecvToolUse(ToolUseEvent("imageAnalyzer", "t1", ContentQuery))
    \/ RecvContentEndTool
    \/ SendToolStart
    \/ SendToolResult
    \/ SendToolEnd
    \/ \E u \in 1..MaxUnits : UnitStart(u)
    \/ \E u \in 1..MaxUnits, setupOk \in BOOLEAN : UnitScreenshotWake(u, setupOk)
    \/ \E u \in 1..MaxUnits : UnitScreenshotTimeout(u)
    \/ \E u \in 1..MaxUnits, ok \in BOOLEAN : UnitLlmDone(u, ok)
    \/ \E u \in 1..MaxUnits : CancelUnit(u)
    \/ \E op \in OperationIds, kind \in DeliveryKinds : DeliverScreenshot(op, kind)
SpecScreenshot == Init /\ [][NextScreenshot]_vars

\* the same, with the deliveries that deliver_screenshot_data ignores kept
NextDelivery ==
    \/ InitializeStreamOk
    \/ RecvToolUse(ToolUseEvent("imageAnalyzer", "t1", ContentQuery))
    \/ RecvContentEndTool
    \/ SendToolStart
    \/ SendToolResult
    \/ SendToolEnd
    \/ \E u \in 1..MaxUnits : UnitStart(u)
    \/ \E u \in 1..MaxUnits, setupOk \in BOOLEAN : UnitScreenshotWake(u, setupOk)
    \/ \E u \in 1..MaxUnits : UnitScreenshotTimeout(u)
    \/ \E u \in 1..MaxUnits, ok \in BOOLEAN : UnitLlmDone(u, ok)
    \/ \E u \in 1..MaxUnits : CancelUnit(u)
    \/ \E op \in OperationIds, kind \in DeliveryKinds : ClientScreenshot(op, kind)
SpecDelivery == Init /\ [][NextDelivery]_vars

\* handle_number_race on each of its inputs: the session has opened and
\* the response loop has captured a numberRace toolUse event with one of
\* them as its content
InitNumberRace ==
    \E c \in {p[1] : p \in NumberInputs} \cup Contents :
        /\ stream_response = TRUE /\ is_active = TRUE
        /\ rl_pc = "recv" /\ handled = 1
        /\ toolName = "numberRace" /\ toolUseId = "t1"
        /\ toolUseContent =
              [toolName |-> "numberRace", toolUseId |-> "t1", content |-> c]
        /\ put_log = <<EventItem(ToolUseEvent("numberRace", "t1", c))>>
        /\ forward_pc = "running" /\ audio_pc = "running"
        /\ toolResult = NoResult
        /\ completed_async_tool_results = EmptyMap
        /\ active_background_tasks = EmptyMap
        /\ tasks = <<>>
        /\ pending_screenshot_events = EmptyMap
        /\ received_screenshot_data = EmptyMap
        /\ wait_ended = EmptyMap
        /\ ignored_delivery = {}
        /\ launch_refusals = {}
        /\ taken = 0 /\ ws_open = TRUE /\ ws_sent = <<>>
        /\ toolContent = 0 /\ sent_upstream = <<>> /\ upstream_faults = <<>>
        /\ client_msgs = 0 /\ client_faults = 0 /\ audio_input_queue = 0
        /\ send_errors = 0 /\ slept = 0
NextNumberRace ==
    \/ RecvContentEndTool
    \/ SendToolStart
    \/ SendToolResult
    \/ SendToolEnd
SpecNumberRace == InitNumberRace /\ [][NextNumberRace]_vars

\* the whole session
NextSession == NextTeardown \/ PassThroughSteps
SpecSession == Init /\ [][NextSession]_vars

(***************************************************************************)
(* Properties of the background-tool lifecycle.                            *)
(***************************************************************************)
Alive(u) == tasks[u].st # "done"
\* u is the unit the active-task table holds for its invocation id
InTable(u) ==
    /\ tasks[u].tool_use_id \in DOMAIN active_background_tasks
    /\ active_background_tasks[tasks[u].tool_use_id] = u
\* the result cache holds a payload written by u
CacheHolds(u) ==
    \E k \in DOMAIN completed_async_tool_results :
        completed_async_tool_results[k].unit = u
\* positions in put_log of the completion notifications for id with status
NotificationsFor(id, statuses) ==
    {i \in 1..Len(put_log) :
        /\ put_log[i].kind = "toolCompletionNotification"
        /\ put_log[i].body.toolUseId = id
        /\ put_log[i].body.status \in statuses}
UnitsEnded(id, outcomes) ==
    {u \in Units : tasks[u].tool_use_id = id /\ tasks[u].outcome \in outcomes}
\* the step in which the response loop dispatches the captured tool use
Dispatch == rl_pc = "recv" /\ rl_pc' = "tool_start"
\* the captured tool use is valid input for its slow-tool handler
ValidSlowInput ==
    /\ Lower(toolName) \in SlowTools
    /\ toolUseContent.toolUseId # ""
    /\ JsonValid(toolUseContent.content)
    /\ JsonObject(toolUseContent.content)
    /\ Lower(toolName) = "agentsearch" => JsonQuery(toolUseContent.content) # ""
\* the response loop was cancelled, or the client connection of an opened
\* session has closed
TornDown == rl_pc = "cancelled" \/ (stream_response /\ ~ws_open)

\* C1: at any time at most one unfinished background unit exists per
\* invocation id and it is the one the active-task table holds for that id;
\* a unit writes the cache exactly once if it succeeds and never otherwise
C1_OneUnitPerInvocationId ==
    /\ \A u \in Units, v \in Units :
          (Alive(u) /\ Alive(v) /\ tasks[u].tool_use_id = tasks[v].tool_use_id)
             => u = v
    /\ \A u \in Units : Alive(u) => InTable(u)
    /\ \A u \in Units :
          tasks[u].writes = IF tasks[u].outcome = "success" THEN 1 ELSE 0
\* an id was launched again while its unit was unresolved: the launch was
\* refused, the id has one unit, and that unit completed with one cache write
C1_Witness ==
    \E id \in launch_refusals :
        /\ Cardinality({u \in Units : tasks[u].tool_use_id = id}) = 1
        /\ \E u \in Units :
              /\ tasks[u].tool_use_id = id
              /\ tasks[u].outcome = "success"
              /\ tasks[u].writes = 1

\* C2: a cached payload is handed out at most once: a unit's payload is
\* retrieved no more often than it was written, a retrieved payload is no
\* longer in the cache, and a dispatch that returns a cached result returns
\* it with status success from the key of the lower-cased tool name
C2_CachedResultRetrievedOnce ==
    /\ \A u \in Units :
          /\ tasks[u].retrieved <= tasks[u].writes
          /\ tasks[u].retrieved > 0 => ~CacheHolds(u)
    /\ (rl_pc = "tool_start" /\ toolResult.result = "cached") =>
          /\ toolResult.status = "success"
          /\ Lower(toolName) \in SlowTools
          /\ CacheKey(tasks[toolResult.data.unit].tool_name) = Lower(toolName)
          /\ tasks[toolResult.data.unit].retrieved = 1
\* a unit's result was retrieved, no other unit of that tool has completed,
\* and a later invocation of the tool has taken the placeholder or launch path
C2_Witness ==
    /\ rl_pc = "tool_start"
    /\ toolResult.result \in {"starting", "still_working"}
    /\ \E u \in Units :
          /\ tasks[u].retrieved = 1
          /\ Lower(tasks[u].tool_name) = Lower(toolName)
          /\ \A v \in Units \ {u} :
                Lower(tasks[v].tool_name) = Lower(toolName)
                   => tasks[v].outcome # "success"

\* C3: while the work of an agentSearch invocation has not completed, no
\* second agentSearch unit is started
C3_NoSecondAgentSearchUnit ==
    Cardinality({u \in Units : Alive(u) /\ tasks[u].work = "agent_search"}) <= 1

\* C4: a dispatch of a slow tool with valid input pops the cached result if
\* there is one (no unit started, table unchanged); else, if the id is in the
\* active-task table, returns "still_working" and starts nothing; else
\* launches exactly one unit
C4_OneOfThreeInOrder ==
    [][(Dispatch /\ ValidSlowInput) =>
         LET key == Lower(toolName)
             id == toolUseContent.toolUseId
         IN IF key \in DOMAIN completed_async_tool_results
            THEN /\ toolResult' = CachedResult(completed_async_tool_results[key])
                 /\ completed_async_tool_results' =
                        MapDel(completed_async_tool_results, key)
                 /\ active_background_tasks' = active_background_tasks
                 /\ Len(tasks') = Len(tasks)
            ELSE IF id \in DOMAIN active_background_tasks
            THEN /\ toolResult' = Result("success", "still_working")
                 /\ completed_async_tool_results' = completed_async_tool_results
                 /\ active_background_tasks' = active_background_tasks
                 /\ tasks' = tasks
            ELSE /\ toolResult' = Result("success", "starting")
                 /\ completed_async_tool_results' = completed_async_tool_results
                 /\ Len(tasks') = Len(tasks) + 1
                 /\ active_background_tasks' =
                        MapPut(active_background_tasks, id, Len(tasks) + 1)
      ]_vars
\* a dispatch has returned "still_working" for an id whose unit is unfinished
C4_Witness ==
    /\ rl_pc = "tool_start"
    /\ toolResult.result = "still_working"
    /\ toolUseId \in DOMAIN active_background_tasks
    /\ Alive(active_background_tasks[toolUseId])

\* C5: a dispatch that returns "starting" returns it with status success,
\* has registered exactly one new unit under the invocation id, and when it
\* returns that unit has not run and the cache holds nothing written by it
C5_StartingReturnsBeforeWork ==
    [][(Dispatch /\ toolResult'.result = "starting") =>
         LET new == Len(tasks) + 1 IN
         /\ toolResult'.status = "success"
         /\ Len(tasks') = new
         /\ toolUseContent.toolUseId \in DOMAIN active_background_tasks'
         /\ active_background_tasks'[toolUseContent.toolUseId] = new
         /\ tasks'[new].st = "scheduled"
         /\ tasks'[new].writes = 0
         /\ \A k \in DOMAIN completed_async_tool_results' :
               completed_async_tool_results'[k].unit # new
      ]_vars
\* the dispatch has just returned "starting" and the unit it registered has
\* not run yet
C5_Witness ==
    /\ rl_pc = "tool_start"
    /\ toolResult.result = "starting"
    /\ toolUseId \in DOMAIN active_background_tasks
    /\ tasks[active_background_tasks[toolUseId]].st = "scheduled"

\* C6: once the session is torn down, no unit that was in the active-task
\* table at that moment completes with a cache write or a completion
\* notification
C6_NoCompletionAfterTeardown ==
    [][TornDown =>
         \A u \in Units :
            (tasks[u].at_teardown /\ tasks'[u].outcome \in {"success", "error"})
               => tasks'[u].outcome = tasks[u].outcome
      ]_vars

\* C7: a unit cancelled while its work was running has written nothing to
\* the cache, and the completion notifications for its invocation id are
\* exactly those of the units of that id that succeeded or failed
C7_CancelledUnitIsSilent ==
    \A u \in Units :
        tasks[u].outcome = "cancelled" =>
           /\ tasks[u].writes = 0
           /\ ~CacheHolds(u)
           /\ Cardinality(NotificationsFor(tasks[u].tool_use_id,
                                           {"success", "error"}))
                = Cardinality(UnitsEnded(tasks[u].tool_use_id,
                                         {"success", "error"}))
\* a unit was cancelled while it waited for its work
C7_Witness ==
    \E u \in Units :
        /\ tasks[u].outcome = "cancelled"
        /\ NotificationsFor(tasks[u].tool_use_id, {"success", "error"}) = {}

\* C8: a unit that has ended, whatever its outcome, is no longer the
\* active-task table's entry for its invocation id
C8_EndedUnitLeavesTable ==
    \A u \in Units : ~Alive(u) => ~InTable(u)

\* C9: a unit whose work raised has written nothing to the cache, and the
\* error notifications for its invocation id are exactly one per unit of
\* that id whose work raised, each carrying the unit's tool name
C9_FailureNotifiesWithoutCaching ==
    \A u \in Units :
        tasks[u].outcome = "error" =>
           /\ tasks[u].writes = 0
           /\ ~CacheHolds(u)
           /\ Cardinality(NotificationsFor(tasks[u].tool_use_id, {"error"}))
                = Cardinality(UnitsEnded(tasks[u].tool_use_id, {"error"}))
           /\ \E i \in NotificationsFor(tasks[u].tool_use_id, {"error"}) :
                 put_log[i].body.toolName = tasks[u].tool_name
\* the work of a unit raised
C9_Witness ==
    \E u \in Units :
        /\ tasks[u].outcome = "error"
        /\ Cardinality(NotificationsFor(tasks[u].tool_use_id, {"error"})) = 1

\* C10: the step in which a unit succeeds stores its payload under the
\* lower-cased tool name, replacing what was there and leaving every other
\* key alone, and puts exactly one success notification with the tool name
\* and the invocation id on the outbound queue
C10_SuccessCachesAndNotifies ==
    [][\A u \in Units :
         (tasks[u].outcome = "none" /\ tasks'[u].outcome = "success") =>
            LET key == Lower(tasks[u].tool_name) IN
            /\ DOMAIN completed_async_tool_results' =
                   DOMAIN completed_async_tool_results \cup {key}
            /\ completed_async_tool_results'[key].unit = u
            /\ \A k \in DOMAIN completed_async_tool_results \ {key} :
                  completed_async_tool_results'[k] =
                      completed_async_tool_results[k]
            /\ put_log' = Append(put_log,
                   Notification(tasks[u].tool_name, tasks[u].tool_use_id,
                                "success"))
      ]_vars
\* two units of one tool succeeded, the result of the first was never
\* retrieved, and the cache holds the result of the second
C10_Witness ==
    \E u \in Units, v \in Units :
        /\ u # v
        /\ tasks[u].outcome = "success" /\ tasks[v].outcome = "success"
        /\ tasks[u].retrieved = 0
        /\ Lower(tasks[u].tool_name) = Lower(tasks[v].tool_name)
        /\ Lower(tasks[v].tool_name) \in DOMAIN completed_async_tool_results
        /\ completed_async_tool_results[Lower(tasks[v].tool_name)].unit = v

(***************************************************************************)
(* Properties of the outbound queue, the forwarder and the response loop.  *)
(***************************************************************************)
\* the client transport works: the connection is open and no send has raised
TransportOpen == ws_open /\ forward_pc # "send_failed"
\* the completion notification of an ended unit
NotificationOf(u) ==
    Notification(tasks[u].tool_name, tasks[u].tool_use_id,
                 NotificationStatus(tasks[u].outcome))
OnTheWire(item) == \E i \in 1..Len(ws_sent) : ws_sent[i] = item

\* C11: a unit that ended by succeeding or failing leads to its completion
\* notification being sent to the client, unless the transport fails
C11_NotificationEventuallySent ==
    \A u \in 1..MaxUnits :
        (u \in Units /\ tasks[u].outcome \in {"success", "error"})
           ~> (~TransportOpen \/ (u \in Units /\ OnTheWire(NotificationOf(u))))

\* C12: the None is the last item ever put on the outbound queue
C12_NothingAfterSentinel ==
    \A i \in 1..Len(put_log) : put_log[i] = Sentinel => i = Len(put_log)

IsSentinel(item) == item = Sentinel
IsMessage(item) == item # Sentinel
LoopExited == rl_pc \in {"done", "cancelled"}
Sentinels(log) == Len(SelectSeq(log, IsSentinel))

\* C13: a loop that has not exited has put no None and a loop that has exited,
\* by any path, has put exactly one, with the session inactive from that put on
C13_OneSentinelOnExit ==
    /\ Sentinels(put_log) = (IF LoopExited THEN 1 ELSE 0)
    /\ (Sentinels(put_log) > 0 => ~is_active)
\* the loop was cancelled in the middle of a tool-result triad
C13_Witness ==
    /\ rl_pc = "cancelled" /\ ~is_active
    /\ Len(sent_upstream) % 3 # 0
    /\ Sentinels(put_log) = 1 /\ Len(put_log) > 1

\* what forward_responses has taken off the queue so far
Dequeued == SubSeq(put_log, 1, taken)
\* the items forward_responses has handed to websocket.send: the ones that
\* went out and, if a send raised, the one it raised on
SendCalls ==
    ws_sent \o (IF forward_pc = "send_failed" THEN <<put_log[taken]>> ELSE <<>>)

InTriad == rl_pc \in {"tool_start", "tool_result", "tool_end"}
TriadTypes == <<"contentStart", "toolResult", "contentEnd">>
\* how many events of the triad in progress have been sent
TriadSent ==
    CASE rl_pc = "tool_result" -> 1 [] rl_pc = "tool_end" -> 2 [] OTHER -> 0
\* the triad the k-th upstream event belongs to
TriadOf(k) == (k - 1) \div 3

\* C15: what the loop has sent upstream is one triad contentStart, toolResult,
\* contentEnd per tool-boundary contentEnd it handled, the three events of a
\* triad carrying one content name that no other triad carries; the dispatch
\* step itself sends nothing; the contentStart carries the captured toolUseId
\* and the toolResult carries "error" exactly when the result of
\* processToolUse has status "error", else "success"
C15_TriadAfterDispatch ==
    /\ [](LET n == Len(sent_upstream) IN
          /\ \A k \in 1..n :
                /\ sent_upstream[k].type = TriadTypes[((k - 1) % 3) + 1]
                /\ sent_upstream[k].contentName =
                       sent_upstream[3 * TriadOf(k) + 1].contentName
          /\ \A j, k \in 1..n :
                TriadOf(j) # TriadOf(k) =>
                    sent_upstream[j].contentName # sent_upstream[k].contentName
          /\ rl_pc # "cancelled" =>
                n = 3 * (toolContent - (IF InTriad THEN 1 ELSE 0)) + TriadSent)
    /\ [][/\ Dispatch => sent_upstream' = sent_upstream
          /\ (rl_pc = "tool_start" /\ rl_pc' = "tool_result") =>
                /\ Len(sent_upstream') = Len(sent_upstream) + 1
                /\ sent_upstream'[Len(sent_upstream')].toolUseId = toolUseId
                /\ sent_upstream'[Len(sent_upstream')].contentName = toolContent
          /\ (rl_pc = "tool_result" /\ rl_pc' = "tool_end") =>
                /\ Len(sent_upstream') = Len(sent_upstream) + 1
                /\ sent_upstream'[Len(sent_upstream')].status =
                       (IF toolResult.status = "error" THEN "error"
                        ELSE "success")
          /\ (rl_pc = "tool_end" /\ rl_pc' = "recv") =>
                Len(sent_upstream') = Len(sent_upstream) + 1
         ]_vars
\* two tool uses were handled: the first result was an error, the second not
C15_Witness ==
    /\ rl_pc = "recv" /\ is_active
    /\ Len(sent_upstream) = 6
    /\ sent_upstream[1].toolUseId = "t1" /\ sent_upstream[4].toolUseId = "t2"
    /\ sent_upstream[2].status = "error" /\ sent_upstream[5].status = "success"

\* C16: a dispatch of a tool name whose lower-cased form is no key of
\* tool_handlers returns the "not recognized" result with status "error",
\* leaves the cache, the active-task table, the units and the screenshot
\* tables as they were, and leaves the loop active and about to send the triad
C16_UnknownToolIsAnError ==
    [][(Dispatch /\ Lower(toolName) \notin tool_handlers) =>
          /\ toolResult' = Result("error", "not_recognized")
          /\ UNCHANGED <<tableVars, screenshotVars, put_log, upstream_faults>>
          /\ is_active'
      ]_vars
\* the triad for an unregistered tool went out with status error and the
\* loop is receiving again
C16_Witness ==
    /\ rl_pc = "recv" /\ is_active /\ toolName = "translate"
    /\ Len(sent_upstream) = 3 /\ sent_upstream[2].status = "error"
    /\ upstream_faults = <<>>

IsFatalItem(item) == item = FatalErrorItem
\* the exceptions that reached the loop's "except Exception"
IsLoopError(fault) == fault # JsonFault

\* C18: the queue holds as many fatal-error notifications as errors with a
\* fatal signature have reached the loop, and never more than one; the
\* notification is directly followed by the None; after such an error the
\* session is inactive and the loop has exited
C18_OneFatalNotification ==
    /\ Len(SelectSeq(put_log, IsFatalItem))
          = Len(SelectSeq(upstream_faults, IsFatal))
    /\ Len(SelectSeq(put_log, IsFatalItem)) <= 1
    /\ \A i \in 1..Len(put_log) :
          put_log[i] = FatalErrorItem =>
              (i < Len(put_log) /\ put_log[i + 1] = Sentinel)
    /\ (\E i \in 1..Len(upstream_faults) : IsFatal(upstream_faults[i])) =>
          (~is_active /\ rl_pc = "done")
\* after two forwarded events a receive failed with a multi-error message
C18_Witness ==
    /\ upstream_faults = << <<"2 ", "Error(s):", " a; b">> >>
    /\ Len(put_log) = 4 /\ put_log[3] = FatalErrorItem /\ put_log[4] = Sentinel
    /\ ~is_active /\ rl_pc = "done"

LoopErrors == SelectSeq(upstream_faults, IsLoopError)

\* C19: once an exception, fatal or not, has reached the loop's
\* "except Exception", the session is inactive and the loop has exited, and
\* from then on the loop takes no upstream event, sends nothing upstream and
\* meets no second error
C19_ErrorEndsLoop ==
    /\ [](Len(LoopErrors) > 0 => (~is_active /\ rl_pc = "done"))
    /\ [](Len(LoopErrors) <= 1)
    /\ [][Len(LoopErrors) > 0 =>
             UNCHANGED <<handled, loopVars, captureVars, upstreamVars>>]_vars
\* an error without a fatal signature ended the loop after it had forwarded
\* an event, with upstream events still to come
C19_Witness ==
    /\ upstream_faults = << <<"Connection reset">> >>
    /\ ~is_active /\ rl_pc = "done"
    /\ handled < MaxEvents
    /\ put_log = <<EventItem(PlainEvent("textOutput")), Sentinel>>

IsJsonErrorItem(item) == item = JsonErrorItem
IsJsonFault(fault) == fault = JsonFault

\* C20: the queue holds one JSONDecodeError object per payload that failed to
\* parse; the step that meets such a payload puts exactly that object, leaves
\* the session active and the loop receiving, and changes neither the
\* captured tool use nor the tables nor what was sent upstream
C20_BadJsonIsReportedAndSkipped ==
    /\ [](Len(SelectSeq(put_log, IsJsonErrorItem))
            = Len(SelectSeq(upstream_faults, IsJsonFault)))
    /\ [][upstream_faults' = Append(upstream_faults, JsonFault) =>
             /\ put_log' = Append(put_log, JsonErrorItem)
             /\ is_active /\ is_active' /\ rl_pc' = "recv"
             /\ UNCHANGED <<captureVars, toolResult, tableVars, screenshotVars,
                            toolContent, sent_upstream>>
         ]_vars
\* between a toolUse event and its contentEnd a payload failed to parse; the
\* captured tool use was still dispatched and its triad sent
C20_Witness ==
    /\ rl_pc = "recv" /\ is_active
    /\ toolName = "numberRace" /\ Len(sent_upstream) = 3
    /\ put_log = <<EventItem(ToolUseEvent("numberRace", "t2", ContentNumber)),
                   JsonErrorItem, EventItem(ContentEndTool)>>

(***************************************************************************)
(* Properties of websocket_handler, send_raw_event and the session's end.  *)
(***************************************************************************)
\* C21: the step that takes a client message that is no valid JSON gives the
\* client an error object (sent, or put on the outbound queue), sends nothing
\* upstream, queues no audio, and leaves the handler taking messages
C21_BadClientJsonReported ==
    [][client_faults' > client_faults =>
          /\ (Len(ws_sent') > Len(ws_sent) \/ Len(put_log') > Len(put_log))
          /\ UNCHANGED <<sent_upstream, audio_input_queue>>
          /\ HandlerListening'
      ]_vars

\* C22: a step that starts with the session inactive or the stream not open
\* hands no event to the upstream stream
C22_NoSendWhenInactive ==
    [][(~is_active \/ ~stream_response) =>
          (sent_upstream' = sent_upstream /\ send_errors' = send_errors)]_vars
\* after the response loop had exited the client sent an event and an audio
\* chunk; both reached send_raw_event and nothing went upstream
C22_Witness ==
    /\ stream_response /\ ~is_active
    /\ client_msgs = 2 /\ client_faults = 0
    /\ audio_input_queue = 0 /\ audio_pc = "done"
    /\ sent_upstream = <<>>

\* C23: a step in which the upstream send raised inside send_raw_event
\* changes nothing but the record of what was handed to the stream: the
\* active flag, the outbound queue, the audio queue apart from the chunk
\* taken, the cache and the tables stay, and the caller goes on (the
\* handler keeps listening, the audio loop keeps running)
C23_SendFailureIsLoggedOnly ==
    [][send_errors' > send_errors =>
          /\ UNCHANGED <<loopVars, put_log, tableVars, screenshotVars,
                         captureVars, upstream_faults, clientVars>>
          /\ audio_input_queue' \in {audio_input_queue, audio_input_queue - 1}
          /\ audio_pc' = audio_pc
          /\ HandlerListening = HandlerListening'
      ]_vars
\* three events were handed to the stream, from the handler and from the
\* audio loop, two of the sends raised, and both callers are still running
C23_Witness ==
    /\ send_errors = 2 /\ is_active /\ audio_pc = "running"
    /\ HandlerListening
    /\ Len(sent_upstream) = 3
    /\ sent_upstream[1] = ClientEventRecord
    /\ sent_upstream[2] = AudioInputEvent
    /\ sent_upstream[3] = ClientEventRecord

\* initialize_stream raised and websocket_handler has returned
InitFailed == ~stream_response /\ ~ws_open

\* C24: the step in which opening the stream fails leaves the session
\* inactive with no response loop, no audio loop and no forwarder, sends the
\* client at most the one BedrockInitializationError and closes the
\* connection; from then on nothing was ever received from or sent to the
\* stream, nothing is on the outbound queue and no client message was taken
C24_InitFailureEndsSession ==
    /\ [][(rl_pc = "not_started" /\ ~stream_response') =>
             /\ ~is_active' /\ ~ws_open'
             /\ rl_pc' = "not_started" /\ audio_pc' = "not_started"
             /\ forward_pc' = "not_started"
             /\ ws_sent' \in {ws_sent, Append(ws_sent, InitErrorItem)}
         ]_vars
    /\ [](InitFailed =>
             /\ ~is_active
             /\ rl_pc = "not_started" /\ audio_pc = "not_started"
             /\ forward_pc = "not_started"
             /\ sent_upstream = <<>> /\ put_log = <<>>
             /\ handled = 0 /\ client_msgs = 0 /\ send_errors = 0
             /\ ws_sent \in {<<>>, <<InitErrorItem>>})
\* opening failed and the client got the initialization error
C24_Witness ==
    /\ InitFailed /\ ~is_active
    /\ ws_sent = <<InitErrorItem>>

\* C25: once the client connection of an opened session has closed, the
\* response loop takes no further upstream event and nothing further is
\* handed to the upstream stream
C25_CloseStopsTheLoops ==
    [][(stream_response /\ ~ws_open) =>
          (handled' = handled /\ sent_upstream' = sent_upstream)]_vars

(***************************************************************************)
(* Properties of the screenshot rendezvous and of the result cache.        *)
(***************************************************************************)
\* the wait_for of operation op has ended in the way how
WaitEnded(op, how) == op \in DOMAIN wait_ended /\ wait_ended[op] = how

C27_RendezvousLeavesNoEntry ==
    /\ \A op \in DOMAIN wait_ended :
          /\ op \notin DOMAIN pending_screenshot_events
          /\ op \notin DOMAIN received_screenshot_data
    /\ \A u \in Units :
          tasks[u].st = "done" =>
              /\ tasks[u].op \notin DOMAIN pending_screenshot_events
              /\ tasks[u].op \notin DOMAIN received_screenshot_data
\* one wait ended by the Event being set and another by timeout; both
\* tables are empty
C27_Witness ==
    /\ \E op \in DOMAIN wait_ended : wait_ended[op] = "signalled"
    /\ \E op \in DOMAIN wait_ended : wait_ended[op] = "timeout"
    /\ pending_screenshot_events = EmptyMap
    /\ received_screenshot_data = EmptyMap

\* deliver_screenshot_data has just ignored a delivery for op
IgnoredNow(op) == op \in ignored_delivery' /\ ignored_delivery' # ignored_delivery
\* C28: a client delivery whose operation id is not registered changes no
\* state of the session; and in no step at all does an unregistered id get a
\* payload or a set Event, nor a registration other than by its unit starting
C28_UnregisteredDeliveryIgnored ==
    /\ [][\A op \in OperationIds :
            IgnoredNow(op) =>
                /\ op \notin DOMAIN pending_screenshot_events
                /\ UNCHANGED <<pending_screenshot_events,
                               received_screenshot_data, wait_ended, loopVars,
                               captureVars, toolResult, tableVars, put_log,
                               clientVars, upstreamVars, handlerVars>>
         ]_vars
    /\ [][\A op \in OperationIds :
            op \notin DOMAIN pending_screenshot_events =>
                /\ op \notin DOMAIN received_screenshot_data'
                /\ op \in DOMAIN pending_screenshot_events' =>
                      /\ ~pending_screenshot_events'[op]
                      /\ \E u \in Units :
                            /\ tasks[u].st = "scheduled"
                            /\ tasks'[u].st = "wait_screenshot"
                            /\ tasks'[u].op = op
         ]_vars
\* the latest ignored delivery was for the id of a wait that the timeout
\* had ended, while another unit is registered and waits unsignalled
C28_Witness ==
    \E op \in ignored_delivery :
        /\ WaitEnded(op, "timeout")
        /\ \E u \in Units :
              /\ tasks[u].st = "wait_screenshot"
              /\ tasks[u].op # op
              /\ ~pending_screenshot_events[tasks[u].op]
        /\ received_screenshot_data = EmptyMap

\* C29: the payload stored for an operation id is stored once: while it
\* is stored no step replaces it, so a second client message with the same
\* id changes neither the payload nor the Event
C29_DeliveredOnce ==
    [][\A op \in OperationIds :
          (op \in DOMAIN received_screenshot_data
           /\ op \in DOMAIN received_screenshot_data') =>
              /\ received_screenshot_data'[op] = received_screenshot_data[op]
              /\ op \in DOMAIN pending_screenshot_events'
              /\ pending_screenshot_events'[op]
      ]_vars

\* positions in put_log of the success notifications of the tool whose
\* lower-cased name is key
SuccessesOf(key) ==
    {i \in 1..Len(put_log) :
        /\ put_log[i].kind = "toolCompletionNotification"
        /\ Lower(put_log[i].body.toolName) = key
        /\ put_log[i].body.status = "success"}
\* the invocation id of the unit of that tool that completed last
LatestCompleted(key) ==
    LET last == CHOOSE i \in SuccessesOf(key) : \A j \in SuccessesOf(key) : j <= i
    IN  put_log[last].body.toolUseId
\* C30: the cache has one slot per lower-cased tool name, holding the result
\* of the unit of that tool that completed last; a retrieval returns that
\* result and empties the slot, and a dispatch that finds the slot empty
\* returns no cached result
C30_OneSlotPerTool ==
    /\ [](\A k \in DOMAIN completed_async_tool_results :
            /\ k = Lower(k)
            /\ SuccessesOf(k) # {}
            /\ completed_async_tool_results[k].searchId = LatestCompleted(k))
    /\ [][Dispatch =>
            LET key == Lower(toolName) IN
            IF toolResult'.result = "cached"
            THEN /\ key \in DOMAIN completed_async_tool_results
                 /\ toolResult'.data = completed_async_tool_results[key]
                 /\ completed_async_tool_results' =
                        MapDel(completed_async_tool_results, key)
            ELSE /\ (ValidSlowInput => key \notin DOMAIN completed_async_tool_results)
                 /\ DOMAIN completed_async_tool_results' =
                        DOMAIN completed_async_tool_results
         ]_vars
\* two agentSearch units with different invocation ids both succeeded before
\* any retrieval; the one retrieval since returned the result of the one
\* that completed last, the other result was never retrieved, and the slot
\* is empty
C30_Witness ==
    /\ rl_pc = "tool_start" /\ toolResult.result = "cached"
    /\ completed_async_tool_results = EmptyMap
    /\ \E u, v \in Units :
          /\ tasks[u].tool_use_id # tasks[v].tool_use_id
          /\ tasks[u].outcome = "success" /\ tasks[v].outcome = "success"
          /\ Lower(tasks[u].tool_name) = Lower(tasks[v].tool_name)
          /\ tasks[u].retrieved = 0 /\ tasks[v].retrieved = 1
          /\ toolResult.data.unit = v
          /\ tasks[v].tool_use_id = LatestCompleted(Lower(toolName))
          /\ Cardinality(SuccessesOf(Lower(toolName))) = 2

(***************************************************************************)
(* Properties of the tool handlers and of the captured tool use.           *)
(***************************************************************************)
\* C31, as stated: for every input whose number is a JSON integer N the
\* handler returns success with N after a wait of N
C31_IntegerWaitsAndSucceeds ==
    [][(Dispatch /\ Lower(toolName) = "numberrace") =>
          \A w \in {<<ContentNumber, 1>>, <<"{\"number\": 0}", 0>>,
                     <<"{\"number\": 3}", 3>>, <<"{\"number\": 12}", 12>>,
                     <<"{\"number\": -2}", 0 - 2>>} :
              toolUseContent.content = w[1] =>
                  /\ toolResult'.status = "success"
                  /\ toolResult'.result = "done_waiting"
                  /\ toolResult'.data.seconds = w[2]
                  /\ slept' = slept + w[2]
      ]_vars
\* C31, amended: a number that is an integer N >= 0, as a JSON integer or
\* as a string that int() takes, gives success with N after a wait of N;
\* every other input (no number, a string that is no integer, a real, a
\* boolean, a negative integer, content that is no JSON object) gives
\* status error and no wait
C31_NaturalWaitsAndSucceeds ==
    [][(Dispatch /\ Lower(toolName) = "numberrace") =>
          LET naturals ==
                {<<ContentNumber, 1>>, <<"{\"number\": 0}", 0>>,
                 <<"{\"number\": 3}", 3>>, <<"{\"number\": 12}", 12>>,
                 <<"{\"number\": \"3\"}", 3>>, <<"{\"number\": \" 2 \"}", 2>>,
                 <<"{\"number\": \"+2\"}", 2>>}
              c == toolUseContent.content
          IN  IF \E w \in naturals : w[1] = c
              THEN \A w \in naturals :
                     w[1] = c =>
                        /\ toolResult'.status = "success"
                        /\ toolResult'.result = "done_waiting"
                        /\ toolResult'.data.seconds = w[2]
                        /\ slept' = slept + w[2]
              ELSE /\ toolResult'.status = "error"
                   /\ slept' = slept
      ]_vars
\* the input {"number": 3} was dispatched once: success after 3 seconds
C31_Witness ==
    /\ rl_pc = "tool_start" /\ handled = 2
    /\ toolUseContent.content = "{\"number\": 3}"
    /\ toolResult.status = "success" /\ toolResult.result = "done_waiting"
    /\ toolResult.data.seconds = 3
    /\ slept = 3

\* C32: a captured tool use is dispatched once: when the loop dispatches
\* and a toolUse event has been captured, a toolUse event was received after
\* the last tool-boundary contentEnd it handled
C32_CapturedToolUseDispatchedOnce ==
    [][Dispatch =>
          LET uses == {i \in 1..Len(put_log) :
                          /\ put_log[i].kind = "event"
                          /\ put_log[i].body.type = "toolUse"}
              ends == {j \in 1..Len(put_log) :
                          put_log[j] = EventItem(ContentEndTool)}
          IN  uses # {} => \E i \in uses : \A j \in ends : j < i
      ]_vars

\* C33: a dispatch takes the name, id and input of the most recent toolUse
\* event, whatever was captured before it; it is one dispatch (one content
\* name drawn, an unrecognised name refused by that name), and the
\* contentStart of its triad carries the id of that event
C33_LatestToolUseIsDispatched ==
    /\ [][LET uses == {i \in 1..Len(put_log) :
                          /\ put_log[i].kind = "event"
                          /\ put_log[i].body.type = "toolUse"}
              latest == put_log[CHOOSE i \in uses : \A j \in uses : j <= i].body
          IN  (Dispatch /\ uses # {}) =>
                /\ toolName = latest.toolName
                /\ toolUseId = latest.toolUseId
                /\ toolUseContent.content = latest.content
                /\ toolContent' = toolContent + 1
                /\ (toolResult'.result = "not_recognized")
                      = (Lower(latest.toolName) \notin tool_handlers)
                /\ UNCHANGED captureVars
       ]_vars
    /\ [](LET uses == {i \in 1..Len(put_log) :
                          /\ put_log[i].kind = "event"
                          /\ put_log[i].body.type = "toolUse"}
              latest == put_log[CHOOSE i \in uses : \A j \in uses : j <= i].body
          IN  (rl_pc = "tool_result" /\ is_active /\ uses # {}) =>
                sent_upstream[Len(sent_upstream)]
                   = ToolStartEvent(toolContent, latest.toolUseId))
\* two toolUse events with different names and ids came one after the other;
\* the one contentEnd since was dispatched for the second, and the
\* contentStart sent carries the second id
C33_Witness ==
    /\ rl_pc = "tool_result" /\ handled = 3 /\ toolContent = 1
    /\ Len(put_log) = 2
    /\ put_log[1].body.type = "toolUse" /\ put_log[2].body.type = "toolUse"
    /\ put_log[1].body.toolUseId # put_log[2].body.toolUseId
    /\ put_log[1].body.toolName # put_log[2].body.toolName
    /\ toolUseId = put_log[2].body.toolUseId
    /\ sent_upstream = <<ToolStartEvent(1, put_log[2].body.toolUseId)>>

\* C34, as stated: every upstream event that was parsed, also one whose
\* handling raises, is put on the queue in the step that takes it, unless
\* that step dispatches
C34_EveryParsedEventForwarded ==
    [][(/\ handled' = handled + 1
        /\ ~Dispatch
        /\ \/ upstream_faults' = upstream_faults /\ rl_pc' = "recv"
           \/ /\ Len(upstream_faults') > Len(upstream_faults)
              /\ upstream_faults'[Len(upstream_faults')]
                    \notin ErrorMessages \cup {JsonFault})
         => /\ Len(put_log') = Len(put_log) + 1
            /\ put_log'[Len(put_log')].kind = "event"
      ]_vars
\* C34, amended: an upstream event that is parsed and handled without an
\* exception is appended to the queue as it is in the step that takes it; if
\* it is a toolUse event the capture is that event, otherwise the capture is
\* unchanged; the step dispatches nothing. A tool-boundary contentEnd is
\* appended when its triad has been sent and not before. While the loop is
\* receiving, the events on the queue are as many as the events taken that
\* parsed
C34_HandledEventForwardedOnce ==
    /\ [][(/\ handled' = handled + 1
            /\ ~Dispatch
            /\ upstream_faults' = upstream_faults /\ rl_pc' = "recv")
             => LET x == put_log'[Len(put_log')] IN
                /\ put_log' = Append(put_log, x)
                /\ x.kind = "event"
                /\ IF x.body.type = "toolUse"
                   THEN /\ toolName' = x.body.toolName
                        /\ toolUseId' = x.body.toolUseId
                        /\ toolUseContent' =
                              [toolName |-> x.body.toolName,
                               toolUseId |-> x.body.toolUseId,
                               content |-> x.body.content]
                   ELSE UNCHANGED captureVars
                /\ UNCHANGED <<toolContent, sent_upstream, toolResult,
                               tableVars, slept>>
       ]_vars
    /\ [][Dispatch => put_log' = put_log]_vars
    /\ [][(InTriad /\ rl_pc' = "recv") =>
             put_log' = Append(put_log, EventItem(ContentEndTool))]_vars
    /\ [](rl_pc \in {"recv", "tool_start", "tool_result", "tool_end"} =>
             Len(SelectSeq(put_log, LAMBDA x : x.kind = "event"))
                = handled - Len(upstream_faults) - (IF InTriad THEN 1 ELSE 0))
\* a toolUse event, then two other events: the three are on the queue in
\* that order, the capture is still the toolUse event, nothing dispatched
C34_Witness ==
    /\ rl_pc = "recv" /\ handled = 3 /\ toolContent = 0
    /\ Len(put_log) = 3
    /\ put_log[1].kind = "event" /\ put_log[1].body.type = "toolUse"
    /\ put_log[2] = EventItem(PlainEvent("textOutput"))
    /\ put_log[3] = EventItem(PlainEvent("textOutput"))
    /\ toolName = put_log[1].body.toolName
    /\ toolUseId = put_log[1].body.toolUseId
    /\ toolUseContent.content = put_log[1].body.content

\* C35: a step of the response loop from one event of the triad to the next
\* sends that one event upstream and writes nothing to the queue; the
\* contentEnd event that triggered the dispatch is appended to the queue
\* only by the step in which the third event of the triad is sent
C35_TriadUninterruptedByLoop ==
    /\ [][(rl_pc \in {"tool_start", "tool_result"}
            /\ rl_pc' \in {"tool_result", "tool_end"} /\ rl_pc' # rl_pc) =>
               /\ put_log' = put_log
               /\ Len(sent_upstream') = Len(sent_upstream) + 1
               /\ sent_upstream'[Len(sent_upstream')].type
                     = TriadTypes[TriadSent + 1]
               /\ sent_upstream'[Len(sent_upstream')].contentName = toolContent
       ]_vars
    /\ [][(Len(put_log') > Len(put_log)
            /\ put_log'[Len(put_log')] = EventItem(ContentEndTool)) =>
               /\ rl_pc = "tool_end" /\ rl_pc' = "recv"
               /\ sent_upstream' =
                     Append(sent_upstream, ToolContentEndEvent(toolContent))
               /\ put_log' = Append(put_log, EventItem(ContentEndTool))
       ]_vars
\* two events of a triad are sent; the queue holds the toolUse event and,
\* after it, the completion notification of the unit that ran meanwhile,
\* and not yet the contentEnd event
C35_Witness ==
    /\ rl_pc = "tool_end" /\ handled = 2
    /\ Len(sent_upstream) = 2
    /\ sent_upstream[1].type = "contentStart"
    /\ sent_upstream[2].type = "toolResult"
    /\ Len(put_log) = 2
    /\ put_log[1].kind = "event" /\ put_log[1].body.type = "toolUse"
    /\ put_log[2].kind = "toolCompletionNotification"

\* C36: once active is false the audio loop ends without a further chunk:
\* while it has not ended it has a step of its own to take, whether or not
\* a chunk is waiting
C36_AudioLoopEndsWhenInactive ==
    (audio_pc = "running" /\ ~is_active) =>
        ENABLED (\E sendOk \in BOOLEAN : AudioLoopStep(sendOk))

\* C37: no tool handler holds the event loop while it waits: no step of
\* the session adds to the time for which a blocking sleep kept every other
\* task of the loop from running
C37_HandlersNeverHoldTheLoop == [][slept' = slept]_vars

(***************************************************************************)
(* Properties of the order of registration and request, of the sends of    *)
(* the session's tasks, and of the slow tools' error returns.              *)
(***************************************************************************)
\* C38: the wait handle of an operation id is registered before the
\* screenshot request carrying the id is on the outbound queue: the id of
\* every queued request is registered or its wait has ended, the step that
\* queues a request leaves its id registered, and a client delivery for a
\* requested id is ignored as unregistered only after the wait has ended
C38_RegisteredBeforeRequested ==
    /\ [](\A op \in OperationIds :
            (\E i \in 1..Len(put_log) : put_log[i] = ScreenshotRequest(op)) =>
                \/ op \in DOMAIN pending_screenshot_events
                \/ op \in DOMAIN wait_ended)
    /\ [][\A op \in OperationIds :
            /\ Len(put_log') > Len(put_log)
            /\ put_log'[Len(put_log')] = ScreenshotRequest(op)
            => /\ op \in DOMAIN pending_screenshot_events'
               /\ ~pending_screenshot_events'[op]
               /\ op \notin DOMAIN wait_ended
         ]_vars
    /\ [][\A op \in OperationIds :
            /\ IgnoredNow(op)
            /\ \E i \in 1..Len(put_log) : put_log[i] = ScreenshotRequest(op)
            => op \in DOMAIN wait_ended
         ]_vars
\* a client delivery found the id of a queued request registered and set
\* its handle while the unit still waits, and no delivery has been ignored
C38_Witness ==
    \E u \in Units :
        /\ tasks[u].st = "wait_screenshot"
        /\ \E i \in 1..Len(put_log) : put_log[i] = ScreenshotRequest(tasks[u].op)
        /\ tasks[u].op \in DOMAIN pending_screenshot_events
        /\ pending_screenshot_events[tasks[u].op]
        /\ tasks[u].op \in DOMAIN received_screenshot_data
        /\ ignored_delivery = {}

\* C39 as stated: between the tool-result-start and the tool-result-end
\* event of one tool cycle no audio-input event and no passed-through
\* client event is sent upstream
C39_NoOtherUnitSendsInsideTriad ==
    \A i, j \in 1..Len(sent_upstream) :
        (/\ i < j
         /\ sent_upstream[i].type = "contentStart"
         /\ sent_upstream[j] = ToolContentEndEvent(sent_upstream[i].contentName))
        => \A k \in (i + 1)..(j - 1) :
              sent_upstream[k] \notin {AudioInputEvent, ClientEventRecord}
\* C39: between the tool-result-start and the tool-result-end event of one
\* tool cycle the response loop sends only the tool-result event of that
\* cycle: its own sends are start, result, end of one content name, cycle
\* after cycle, and every other event sent upstream is an audio-input event
\* of the audio loop or an event passed through from the client
C39_OnlyOtherUnitsInterleave ==
    LET Own(e) == e.type \in {"contentStart", "toolResult", "contentEnd"}
        own == SelectSeq(sent_upstream, Own)
    IN  /\ \A k \in 1..Len(own) :
              /\ own[k].type = TriadTypes[((k - 1) % 3) + 1]
              /\ own[k].contentName = own[k - ((k - 1) % 3)].contentName
        /\ \A k, m \in 1..Len(own) :
              (k # m /\ own[k].type = "contentStart"
                     /\ own[m].type = "contentStart")
              => own[k].contentName # own[m].contentName
        /\ \A k \in 1..Len(sent_upstream) :
              ~Own(sent_upstream[k])
              => sent_upstream[k] \in {AudioInputEvent, ClientEventRecord}
        /\ Len(own) % 3 = TriadSent
\* a complete triad with an audio-input event and a client event sent
\* between its start and its end
C39_Witness ==
    \E i, j \in 1..Len(sent_upstream) :
        /\ i < j
        /\ sent_upstream[i].type = "contentStart"
        /\ sent_upstream[j] = ToolContentEndEvent(sent_upstream[i].contentName)
        /\ \E k \in (i + 1)..(j - 1) : sent_upstream[k] = AudioInputEvent
        /\ \E k \in (i + 1)..(j - 1) : sent_upstream[k] = ClientEventRecord
        /\ \E k \in (i + 1)..(j - 1) : sent_upstream[k].type = "toolResult"

\* C40: a slow-tool handler invoked without an invocation id, with input
\* that is not JSON, or (agentSearch) with an empty query returns status
\* error, and a slow-tool dispatch that returns status error leaves the
\* result cache, the active-task table, the units and the rendezvous tables
\* as they were
C40_ErrorReturnLeavesTables ==
    [][(Dispatch /\ Lower(toolName) \in SlowTools) =>
          LET c == toolUseContent.content
              rejected ==
                  \/ toolUseContent.toolUseId = ""
                  \/ ~JsonValid(c)
                  \/ /\ Lower(toolName) = "agentsearch"
                     /\ JsonValid(c) /\ JsonObject(c) /\ JsonQuery(c) = ""
          IN  /\ rejected => toolResult'.status = "error"
              /\ toolResult'.status = "error" =>
                     UNCHANGED <<tableVars, screenshotVars>>
    ]_vars
\* agentSearch has returned an error for an empty query while a cached
\* result for agentSearch waits in the cache, and the result is still there
C40_Witness ==
    /\ rl_pc = "tool_start"
    /\ Lower(toolName) = "agentsearch"
    /\ toolResult = Result("error", "empty_query")
    /\ CacheHit("agentsearch")

====
